---- MODULE Spec2Model ----
(***************************************************************************)
(* The transactional overlay of LocalDatabase: the per-key operation log   *)
(* (TransactionIndex / TransactionNode / TransactionOperation), the        *)
(* B-tree it shadows, the cursors coupled to either side, and the          *)
(* operations insert_txn, erase_txn, find_txn, flush_txn_operation and     *)
(* their wrappers.                                                         *)
(***************************************************************************)
EXTENDS Integers, Sequences, FiniteSets, TLC

\* ---------------------------------------------------------------- bounds
MaxKey == 2
MaxTxn == 2
MaxLsn == 3
MaxCursor == 2
\* the cursor specifications: one cursor with MaxCursorLsn ops, and the
\* cursors of MaxDupeTxn transactions on MaxDupeKey keys
MaxCursorOne == 1
MaxCursorLsn == 2
MaxDupeTxn == 1
MaxDupeKey == 1
\* the LSN up to which the wrappers are called in SpecEnv
MaxEnvLsn == 2
\* the transactions of SpecConflict
MaxConflictTxn == 3
\* the keys and the ops of SpecFind, where find_txn is called on four keys
MaxFindKey == 4
MaxFindLsn == 3
\* the keys of the scanned database and the keys a B-tree leaf holds
MaxScanKey == 5
LeafSize == 2
\* the databases created in SpecCreate: pages of 1024 * 4^i bytes, key
\* sizes and record sizes in bytes
MaxPageShift == 3
MaxKeySize == 124
MaxRecordSize == 33

Keys == 1..MaxKey
\* records are opaque: the i-th op of the environment writes record i, so
\* that every write can be told from every other; the records the B-tree
\* holds when the database is opened are OldRec
Recs == 1..MaxLsn
OldRec == MaxLsn + 1
Txns == 1..MaxTxn
Cursors == 1..MaxCursor

\* ------------------------------------------------------------- constants
\* ham_status_t values used by the overlay
HAM_SUCCESS == "SUCCESS"
HAM_KEY_NOT_FOUND == "KEY_NOT_FOUND"
HAM_DUPLICATE_KEY == "DUPLICATE_KEY"
HAM_TXN_CONFLICT == "TXN_CONFLICT"
HAM_TXN_STILL_OPEN == "TXN_STILL_OPEN"
HAM_CURSOR_IS_NIL == "CURSOR_IS_NIL"
HAM_INV_KEY_SIZE == "INV_KEY_SIZE"
HAM_KEY_ERASED_IN_TXN == "KEY_ERASED_IN_TXN"
\* a dereference of a null Cursor pointer
NullDeref == "NULL_DEREFERENCE"

\* TransactionOperation kinds (TransactionOperation::kInsert ...)
kInsert == "kInsert"
kInsertOverwrite == "kInsertOverwrite"
kInsertDuplicate == "kInsertDuplicate"
kErase == "kErase"
kNop == "kNop"
InsertKinds == {kInsert, kInsertOverwrite, kInsertDuplicate}

\* caller flags
HAM_OVERWRITE == "OVERWRITE"
HAM_DUPLICATE == "DUPLICATE"
HAM_DUPLICATE_INSERT_FIRST == "DUPLICATE_INSERT_FIRST"
HAM_FIND_EXACT_MATCH == "FIND_EXACT_MATCH"
HAM_FIND_LT_MATCH == "FIND_LT_MATCH"
HAM_FIND_GT_MATCH == "FIND_GT_MATCH"
HAM_ENABLE_TRANSACTIONS == "ENABLE_TRANSACTIONS"
HAM_ENABLE_RECOVERY == "ENABLE_RECOVERY"
HAM_RECORD_NUMBER == "RECORD_NUMBER"
HAM_ERASE_ALL_DUPLICATES == "ERASE_ALL_DUPLICATES"

\* Cursor::kLookupOrInsert, and the lastop of a cursor that made no move
kLookupOrInsert == "kLookupOrInsert"
kNoLastOp == "none"
\* the directions of cursor_move
HAM_CURSOR_FIRST == "CURSOR_FIRST"
HAM_CURSOR_LAST == "CURSOR_LAST"
HAM_CURSOR_NEXT == "CURSOR_NEXT"
HAM_CURSOR_PREVIOUS == "CURSOR_PREVIOUS"

NoCursor == 0
NoKey == 0
NoRec == 0

\* ----------------------------------------------------------------- state
VARIABLES
  txns,          \* TxnManager: transaction id -> "unused"|"active"|"committed"|"aborted"
  m_txn_index,   \* TransactionIndex: key -> op chain (oldest first, newest last);
                 \* its DOMAIN is the set of stored TransactionNodes
  m_btree,       \* BtreeIndex: key -> sequence of records (duplicates), <<>> = absent
  m_cursor_list, \* the database's cursors: id -> Cursor
  lsn,           \* the environment's LSN counter
  last,          \* the last public call and what it returned
  m_config       \* the database's flags and its record-number counter

vars == <<txns, m_txn_index, m_btree, m_cursor_list, lsn, last, m_config>>

\* ----------------------------------------------------- transaction state
is_aborted(t) == txns[t] = "aborted"
is_committed(t) == txns[t] = "committed"
is_active(t) == txns[t] = "active"

\* ------------------------------------------------------ TransactionIndex
\* TransactionIndex::get(key): the node stored for exactly this key, or none
HasNode(idx, k) == k \in DOMAIN idx

\* TransactionNode::get_previous_sibling / get_next_sibling: the neighbouring
\* stored node in key order (NoKey when there is none)
Max(S) == CHOOSE x \in S : \A y \in S : y <= x
Min(S) == CHOOSE x \in S : \A y \in S : x <= y
get_previous_sibling(idx, k) ==
  LET s == {n \in DOMAIN idx : n < k} IN IF s = {} THEN NoKey ELSE Max(s)
get_next_sibling(idx, k) ==
  LET s == {n \in DOMAIN idx : n > k} IN IF s = {} THEN NoKey ELSE Min(s)

\* TransactionIndex::store(new TransactionNode(key))
StoreNode(idx, k) == [n \in (DOMAIN idx) \cup {k} |-> IF n \in DOMAIN idx THEN idx[n] ELSE <<>>]
\* TransactionIndex::remove(node)
RemoveNode(idx, k) == [n \in (DOMAIN idx) \ {k} |-> idx[n]]

\* TransactionNode::append(txn, orig_flags, flags, lsn, key, record)
NewOp(txn, orig_flags, kind, l, k, rec) ==
  [txn |-> txn, orig_flags |-> orig_flags, flags |-> kind, flushed |-> FALSE,
   lsn |-> l, key |-> k, record |-> rec, referenced_dupe |-> 0,
   cursor_list |-> <<>>]
NodeAppend(idx, k, op) == [idx EXCEPT ![k] = Append(@, op)]

\* ----------------------------------------------------------------- B-tree
\* BtreeIndex::find(cursor, key, ..., flags) without its cursor effect:
\* exact hit when asked for (or when no direction is given), else the nearest
\* key in the requested direction, flagged approximate
BtreeFind(bt, k, flags) ==
  LET present(x) == bt[x] # <<>>
      lts == {x \in DOMAIN bt : x < k /\ present(x)}
      gts == {x \in DOMAIN bt : x > k /\ present(x)}
      wantExact == HAM_FIND_EXACT_MATCH \in flags
                   \/ (HAM_FIND_LT_MATCH \notin flags /\ HAM_FIND_GT_MATCH \notin flags)
  IN IF wantExact /\ k \in DOMAIN bt /\ present(k)
       THEN [st |-> HAM_SUCCESS, key |-> k, approx |-> FALSE, record |-> bt[k][1]]
     ELSE IF HAM_FIND_LT_MATCH \in flags /\ lts # {}
       THEN [st |-> HAM_SUCCESS, key |-> Max(lts), approx |-> TRUE, record |-> bt[Max(lts)][1]]
     ELSE IF HAM_FIND_GT_MATCH \in flags /\ gts # {}
       THEN [st |-> HAM_SUCCESS, key |-> Min(gts), approx |-> TRUE, record |-> bt[Min(gts)][1]]
     ELSE [st |-> HAM_KEY_NOT_FOUND, key |-> k, approx |-> FALSE, record |-> NoRec]

\* BtreeIndex::compare_keys
compare_keys(a, b) == IF a < b THEN -1 ELSE IF a > b THEN 1 ELSE 0

\* ------------------------------------------------------ conflict checking
\* the walk of check_insert_conflicts over the op chain, newest to oldest;
\* "fallthrough" when no op decides
\* check_insert_conflicts without the test for aborted transactions: the op
\* of an aborted transaction is taken for one of an active transaction
RECURSIVE InsertWalkAbortedSeen(_, _, _, _)
InsertWalkAbortedSeen(txn, chain, i, flags) ==
  IF i = 0 THEN "fallthrough"
  ELSE IF is_committed(chain[i].txn) \/ txn = chain[i].txn THEN
    IF chain[i].flushed THEN InsertWalkAbortedSeen(txn, chain, i - 1, flags)
    ELSE IF chain[i].flags = kErase THEN HAM_SUCCESS
    ELSE IF chain[i].flags \in InsertKinds THEN
      IF HAM_OVERWRITE \in flags \/ HAM_DUPLICATE \in flags
        THEN HAM_SUCCESS ELSE HAM_DUPLICATE_KEY
    ELSE InsertWalkAbortedSeen(txn, chain, i - 1, flags)
  ELSE HAM_TXN_CONFLICT

\* check_insert_conflicts walking on past an Erase instead of returning 0
RECURSIVE InsertWalkPastErase(_, _, _, _)
InsertWalkPastErase(txn, chain, i, flags) ==
  IF i = 0 THEN "fallthrough"
  ELSE IF is_aborted(chain[i].txn) THEN InsertWalkPastErase(txn, chain, i - 1, flags)
  ELSE IF is_committed(chain[i].txn) \/ txn = chain[i].txn THEN
    IF chain[i].flushed THEN InsertWalkPastErase(txn, chain, i - 1, flags)
    ELSE IF chain[i].flags \in InsertKinds THEN
      IF HAM_OVERWRITE \in flags \/ HAM_DUPLICATE \in flags
        THEN HAM_SUCCESS ELSE HAM_DUPLICATE_KEY
    ELSE InsertWalkPastErase(txn, chain, i - 1, flags)
  ELSE HAM_TXN_CONFLICT

RECURSIVE InsertWalk(_, _, _, _)
InsertWalk(txn, chain, i, flags) ==
  IF i = 0 THEN "fallthrough"
  ELSE LET op == chain[i] IN
    IF is_aborted(op.txn) THEN InsertWalk(txn, chain, i - 1, flags)
    ELSE IF is_committed(op.txn) \/ txn = op.txn THEN
      IF op.flushed THEN InsertWalk(txn, chain, i - 1, flags)
      ELSE IF op.flags = kErase THEN HAM_SUCCESS
      ELSE IF op.flags \in InsertKinds THEN
        IF HAM_OVERWRITE \in flags \/ HAM_DUPLICATE \in flags
          THEN HAM_SUCCESS ELSE HAM_DUPLICATE_KEY
      ELSE InsertWalk(txn, chain, i - 1, flags)
    ELSE HAM_TXN_CONFLICT

check_insert_conflicts(txn, idx, bt, k, flags) ==
  LET w == InsertWalk(txn, idx[k], Len(idx[k]), flags) IN
  IF w # "fallthrough" THEN w
  ELSE IF \/ HAM_OVERWRITE \in flags
          \/ HAM_DUPLICATE \in flags
          \/ HAM_RECORD_NUMBER \in m_config.flags THEN HAM_SUCCESS
  ELSE IF BtreeFind(bt, k, {}).st = HAM_SUCCESS THEN HAM_DUPLICATE_KEY
  ELSE HAM_SUCCESS

\* check_erase_conflicts walking on past an Insert instead of returning 0
RECURSIVE EraseWalkPastInsert(_, _, _)
EraseWalkPastInsert(txn, chain, i) ==
  IF i = 0 THEN "fallthrough"
  ELSE IF is_aborted(chain[i].txn) THEN EraseWalkPastInsert(txn, chain, i - 1)
  ELSE IF is_committed(chain[i].txn) \/ txn = chain[i].txn THEN
    IF chain[i].flushed THEN EraseWalkPastInsert(txn, chain, i - 1)
    ELSE IF chain[i].flags = kErase THEN HAM_KEY_NOT_FOUND
    ELSE EraseWalkPastInsert(txn, chain, i - 1)
  ELSE HAM_TXN_CONFLICT

RECURSIVE EraseWalk(_, _, _)
EraseWalk(txn, chain, i) ==
  IF i = 0 THEN "fallthrough"
  ELSE LET op == chain[i] IN
    IF is_aborted(op.txn) THEN EraseWalk(txn, chain, i - 1)
    ELSE IF is_committed(op.txn) \/ txn = op.txn THEN
      IF op.flushed THEN EraseWalk(txn, chain, i - 1)
      ELSE IF op.flags = kErase THEN HAM_KEY_NOT_FOUND
      ELSE IF op.flags \in InsertKinds THEN HAM_SUCCESS
      ELSE EraseWalk(txn, chain, i - 1)
    ELSE HAM_TXN_CONFLICT

check_erase_conflicts(txn, idx, bt, k) ==
  LET w == EraseWalk(txn, idx[k], Len(idx[k])) IN
  IF w # "fallthrough" THEN w ELSE BtreeFind(bt, k, {}).st


\* BtreeIndex::insert(cursor, key, record, flags) without its cursor effect
BtreeInsert(bt, k, rec, flags) ==
  IF bt[k] = <<>> THEN [st |-> HAM_SUCCESS, bt |-> [bt EXCEPT ![k] = <<rec>>]]
  ELSE IF HAM_DUPLICATE \in flags THEN
    [st |-> HAM_SUCCESS,
     bt |-> [bt EXCEPT ![k] = IF HAM_DUPLICATE_INSERT_FIRST \in flags
                                THEN <<rec>> \o @ ELSE Append(@, rec)]]
  ELSE IF HAM_OVERWRITE \in flags THEN
    [st |-> HAM_SUCCESS, bt |-> [bt EXCEPT ![k] = [@ EXCEPT ![1] = rec]]]
  ELSE [st |-> HAM_DUPLICATE_KEY, bt |-> bt]

\* BtreeIndex::erase(cursor, key, dupe_index, flags)
BtreeErase(bt, k, dupe) ==
  IF bt[k] = <<>> THEN [st |-> HAM_KEY_NOT_FOUND, bt |-> bt]
  ELSE IF dupe = 0 THEN [st |-> HAM_SUCCESS, bt |-> [bt EXCEPT ![k] = <<>>]]
  ELSE IF dupe > Len(bt[k]) THEN [st |-> HAM_KEY_NOT_FOUND, bt |-> bt]
  ELSE [st |-> HAM_SUCCESS,
        bt |-> [bt EXCEPT ![k] = SubSeq(@, 1, dupe - 1) \o SubSeq(@, dupe + 1, Len(@))]]

\* ---------------------------------------------------------------- cursors
\* A Cursor: its transaction, the key its BtreeCursor is positioned on
\* (NoKey = nil), the flag "coupled to txn-op", the duplicate index and the
\* lastop memo.  Its TransactionCursor is positioned on the op whose
\* cursor_list holds the cursor (none = nil).
NewCursor(t) ==
  [txn |-> t, btree |-> NoKey, coupled_to_txnop |-> FALSE,
   dupecache_index |-> 0, lastop |-> kNoLastOp]

\* the world the cursor primitives work on: the op chains (with their
\* cursor lists) and the cursors
World(idx, cur) == [idx |-> idx, cur |-> cur]

\* TransactionCursor::get_coupled_op: <<key, position in chain>>, <<0, 0>> = nil
OpsWith(idx, c) ==
  {<<k, i>> \in (DOMAIN idx) \X (1..MaxLsn + 1) :
     /\ i <= Len(idx[k])
     /\ \E j \in 1..Len(idx[k][i].cursor_list) : idx[k][i].cursor_list[j] = c}
get_coupled_op(idx, c) ==
  IF OpsWith(idx, c) = {} THEN <<0, 0>> ELSE CHOOSE x \in OpsWith(idx, c) : TRUE
txn_is_nil(idx, c) == OpsWith(idx, c) = {}

\* TransactionCursor::set_to_nil: leave the op's cursor list (the first n ops
\* of the chain, then every node)
RECURSIVE ChainWithout(_, _, _)
ChainWithout(chain, c, n) ==
  IF n = 0 THEN <<>>
  ELSE Append(ChainWithout(chain, c, n - 1),
              [chain[n] EXCEPT !.cursor_list = SelectSeq(@, LAMBDA x : x # c)])
TxnCursorNil(idx, c) ==
  [k \in DOMAIN idx |-> ChainWithout(idx[k], c, Len(idx[k]))]

\* TransactionCursor::couple_to_op: leave the old op, enter the head of the
\* new op's cursor list
couple_to_op(W, c, k, i) ==
  [W EXCEPT !.idx = [TxnCursorNil(W.idx, c) EXCEPT
                       ![k][i].cursor_list = <<c>> \o @]]

\* Cursor::couple_to_txnop / couple_to_btree: set or clear the flag
couple_to_txnop(W, c) == [W EXCEPT !.cur[c].coupled_to_txnop = TRUE]
couple_to_btree(W, c) == [W EXCEPT !.cur[c].coupled_to_txnop = FALSE]

\* Cursor::set_to_nil(what)
set_to_nil_btree(W, c) == [W EXCEPT !.cur[c].btree = NoKey]
set_to_nil_txn(W, c) ==
  [W EXCEPT !.idx = TxnCursorNil(W.idx, c), !.cur[c].coupled_to_txnop = FALSE]
set_to_nil_both(W, c) ==
  [W EXCEPT !.idx = TxnCursorNil(W.idx, c), !.cur[c].btree = NoKey]

\* Cursor::is_nil(0)
is_nil(W, c) == W.cur[c].btree = NoKey /\ txn_is_nil(W.idx, c)

\* the cursor effect of BtreeIndex::find(cursor, ...): the BtreeCursor is
\* nil'd and, on success, coupled to the key that was found
BtreeCursorFind(W, c, r) ==
  IF c = NoCursor THEN W
  ELSE [W EXCEPT !.cur[c].btree = IF r.st = HAM_SUCCESS THEN r.key ELSE NoKey]

\* TransactionCursor::find(key): couple to the newest op of the key's node that
\* is visible to the cursor's transaction
RECURSIVE TopInNode(_, _, _)
TopInNode(txn, chain, i) ==
  IF i = 0 THEN 0
  ELSE LET op == chain[i] IN
    IF is_aborted(op.txn) THEN TopInNode(txn, chain, i - 1)
    ELSE IF is_committed(op.txn) \/ txn = op.txn THEN
      IF op.flushed \/ op.flags = kNop THEN TopInNode(txn, chain, i - 1) ELSE i
    ELSE 0
TxnCursorCouple(W, c, k, i) ==
  IF i = 0 THEN [W EXCEPT !.idx = TxnCursorNil(W.idx, c)]
  ELSE couple_to_op(W, c, k, i)
TxnCursorFind(W, c, k) ==
  IF ~HasNode(W.idx, k) THEN W
  ELSE TxnCursorCouple(W, c, k, TopInNode(W.cur[c].txn, W.idx[k], Len(W.idx[k])))

\* Cursor::sync(kSyncOnlyEqualKeys, &is_equal): position the nil side of the
\* cursor on the key of the other side
SyncBtree(W, c, r) ==
  [W |-> BtreeCursorFind(W, c, r), is_equal |-> r.st = HAM_SUCCESS]
SyncFrom(W, bt, c, op) ==
  IF W.cur[c].btree = NoKey THEN
    IF op = <<0, 0>> THEN [W |-> W, is_equal |-> FALSE]
    ELSE SyncBtree(W, c, BtreeFind(bt, op[1], {}))
  ELSE IF op = <<0, 0>> THEN
    [W |-> TxnCursorFind(W, c, W.cur[c].btree), is_equal |-> TRUE]
  ELSE [W |-> W, is_equal |-> FALSE]
sync(W, bt, c) == SyncFrom(W, bt, c, get_coupled_op(W.idx, c))


\* ------------------------------------------------------------- dupecache
\* the database is opened with HAM_ENABLE_DUPLICATE_KEYS
EnableDuplicateKeys == TRUE

\* Cursor::update_dupecache: the duplicates of the cursor's key, first those
\* of the B-tree, then the node's ops applied oldest to newest
DupeInsertAt(dc, line, op) ==
  IF op.flags = kInsert THEN <<line>>
  ELSE IF op.flags = kInsertOverwrite THEN
    IF op.referenced_dupe > 0 /\ op.referenced_dupe <= Len(dc)
      THEN [dc EXCEPT ![op.referenced_dupe] = line] ELSE <<line>>
  ELSE IF op.flags = kInsertDuplicate THEN
    IF HAM_DUPLICATE_INSERT_FIRST \in op.orig_flags THEN <<line>> \o dc
    ELSE Append(dc, line)
  ELSE IF op.flags = kErase THEN
    IF op.referenced_dupe = 0 THEN <<>>
    ELSE IF op.referenced_dupe <= Len(dc)
      THEN SubSeq(dc, 1, op.referenced_dupe - 1)
           \o SubSeq(dc, op.referenced_dupe + 1, Len(dc))
    ELSE dc
  ELSE dc

RECURSIVE DupeFold(_, _, _)
DupeFold(chain, i, dc) ==
  IF i > Len(chain) THEN dc
  ELSE LET op == chain[i] IN
    IF is_aborted(op.txn) \/ op.flushed THEN DupeFold(chain, i + 1, dc)
    ELSE DupeFold(chain, i + 1, DupeInsertAt(dc, <<"txn", op.lsn>>, op))

\* Cursor::get_dupecache_count on a cleared dupecache: brings the B-tree side
\* to the key of the coupled op (if the B-tree has it), then builds the cache
SyncedOrNil(c, s) == IF s.is_equal THEN s.W ELSE set_to_nil_btree(s.W, c)
DupeSync(W, bt, c) ==
  IF W.cur[c].btree = NoKey /\ ~txn_is_nil(W.idx, c)
    THEN SyncedOrNil(c, sync(W, bt, c))
    ELSE W
DupeSyncIf(W, bt, c) == IF EnableDuplicateKeys THEN DupeSync(W, bt, c) ELSE W
RECURSIVE BtreeLines(_)
BtreeLines(n) == IF n = 0 THEN <<>> ELSE Append(BtreeLines(n - 1), <<"btree", n>>)
DupeBtree(bt, bk) == IF bk = NoKey THEN <<>> ELSE BtreeLines(Len(bt[bk]))
DupeMerge(W, op, base) ==
  IF op = <<0, 0>> THEN base ELSE DupeFold(W.idx[op[1]], 1, base)
DupeCache(W, bt, c) ==
  DupeMerge(W, get_coupled_op(W.idx, c), DupeBtree(bt, W.cur[c].btree))

\* Cursor::couple_to_dupe(dupe_id) on the dupecache dc
RECURSIVE PosOfLsn(_, _, _)
PosOfLsn(chain, l, i) ==
  IF i > Len(chain) THEN 0 ELSE IF chain[i].lsn = l THEN i ELSE PosOfLsn(chain, l, i + 1)
CoupleToLine(W, c, e, k) ==
  IF e[1] = "btree" THEN couple_to_btree(W, c)
  ELSE couple_to_txnop(couple_to_op(W, c, k, PosOfLsn(W.idx[k], e[2], 1)), c)
couple_to_dupe(W, c, dc, d) ==
  [CoupleToLine(W, c, dc[d], get_coupled_op(W.idx, c)[1])
     EXCEPT !.cur[c].dupecache_index = d]


\* ---------------------------------------------------------------- find_txn

\* Cursor::get_dupecache_count
get_dupecache_count(W, bt, c) ==
  IF EnableDuplicateKeys THEN Len(DupeCache(DupeSync(W, bt, c), bt, c)) ELSE 0

\* TransactionIndex::get(key, flags) as find_txn uses it: the node of exactly
\* this key, NoKey if none is stored
txn_index_get(idx, k, flags) == IF HasNode(idx, k) THEN k ELSE NoKey

\* cursor->get_txn_cursor()->couple_to_op(op); cursor->couple_to_txnop();
CoupleCursorToOp(W, c, k, i) ==
  IF c = NoCursor THEN W ELSE couple_to_txnop(couple_to_op(W, c, k, i), c)

\* the exact-match end of the erase branch of find_txn: the key is gone unless
\* the op erased one duplicate and others are left
FindErasedCounted(W3, bt, c, node, i) ==
  IF Len(DupeCache(W3, bt, c)) # 0
    THEN [st |-> HAM_SUCCESS, W |-> CoupleCursorToOp(W3, c, node, i)]
    ELSE [st |-> HAM_KEY_NOT_FOUND, W |-> W3]
FindErasedCoupled(W1, bt, c, node, i, referenced_dupe) ==
  IF referenced_dupe > 1 THEN
    IF c = NoCursor THEN [st |-> NullDeref, W |-> W1]
    ELSE [st |-> HAM_SUCCESS, W |-> CoupleCursorToOp(W1, c, node, i)]
  ELSE IF referenced_dupe = 1 THEN
    IF c = NoCursor THEN [st |-> NullDeref, W |-> W1]
    ELSE FindErasedCounted(DupeSyncIf(SyncedOrNil(c, sync(W1, bt, c)), bt, c),
                           bt, c, node, i)
  ELSE [st |-> HAM_KEY_NOT_FOUND, W |-> W1]
FindErased(W, bt, c, node, i) ==
  FindErasedCoupled(CoupleCursorToOp(W, c, node, i), bt, c, node, i,
                    W.idx[node][i].referenced_dupe)

\* the walk over the op chain, newest to oldest, with the move to the
\* previous/next sibling node on an erased key (goto retry).  It ends with
\* "return" (find_txn returns st), "break" (left the loop with op = chain[i]
\* of node) or "end" (the chain is exhausted, op = 0).
\* find_txn without the test for kIsFlushed: a flushed op is looked at like
\* any other op of a committed transaction
RECURSIVE FindWalkFlushedSeen(_, _, _, _, _, _, _, _, _, _)
FindWalkFlushedSeen(W, bt, c, txn, approx, flags, node, i, first_loop, eie) ==
  LET out(o, st, W1, a, e, rec) ==
        [out |-> o, st |-> st, W |-> W1, approx |-> a, node |-> node, i |-> i,
         exact_is_erased |-> e, record |-> rec]
  IN
  IF node = NoKey \/ i = 0 THEN out("end", HAM_SUCCESS, W, approx, eie, NoRec)
  ELSE LET op == W.idx[node][i] IN
    IF is_aborted(op.txn)
      THEN FindWalkFlushedSeen(W, bt, c, txn, approx, flags, node, i - 1, first_loop, eie)
    ELSE IF is_committed(op.txn) \/ txn = op.txn THEN
      IF op.flags = kErase THEN
        LET eie1 == eie \/ (first_loop /\ ~approx) IN
        IF HAM_FIND_LT_MATCH \in flags THEN
          LET p == get_previous_sibling(W.idx, node) IN
          IF p = NoKey THEN out("break", HAM_SUCCESS, W, approx, eie1, NoRec)
          ELSE FindWalkFlushedSeen(W, bt, c, txn, TRUE, flags, p, Len(W.idx[p]), FALSE, eie1)
        ELSE IF HAM_FIND_GT_MATCH \in flags THEN
          LET n == get_next_sibling(W.idx, node) IN
          IF n = NoKey THEN out("break", HAM_SUCCESS, W, approx, eie1, NoRec)
          ELSE FindWalkFlushedSeen(W, bt, c, txn, TRUE, flags, n, Len(W.idx[n]), FALSE, eie1)
        ELSE LET r == FindErased(W, bt, c, node, i) IN
             out("return", r.st, r.W, approx, eie1, NoRec)
      ELSE IF op.flags \in InsertKinds THEN
        LET W1 == CoupleCursorToOp(W, c, node, i) IN
        IF approx THEN out("break", HAM_SUCCESS, W1, approx, eie, NoRec)
        ELSE out("return", HAM_SUCCESS, W1, approx, eie, op.record)
      ELSE FindWalkFlushedSeen(W, bt, c, txn, approx, flags, node, i - 1, first_loop, eie)
    ELSE out("return", HAM_TXN_CONFLICT, W, approx, eie, NoRec)

\* find_txn going to the previous sibling of an erased key with GtMatch as
\* it does with LtMatch
RECURSIVE FindWalkWrongSibling(_, _, _, _, _, _, _, _, _, _)
FindWalkWrongSibling(W, bt, c, txn, approx, flags, node, i, first_loop, eie) ==
  LET out(o, st, W1, a, e, rec) ==
        [out |-> o, st |-> st, W |-> W1, approx |-> a, node |-> node, i |-> i,
         exact_is_erased |-> e, record |-> rec]
  IN
  IF node = NoKey \/ i = 0 THEN out("end", HAM_SUCCESS, W, approx, eie, NoRec)
  ELSE LET op == W.idx[node][i] IN
    IF is_aborted(op.txn)
      THEN FindWalkWrongSibling(W, bt, c, txn, approx, flags, node, i - 1, first_loop, eie)
    ELSE IF is_committed(op.txn) \/ txn = op.txn THEN
      IF op.flushed
        THEN FindWalkWrongSibling(W, bt, c, txn, approx, flags, node, i - 1, first_loop, eie)
      ELSE IF op.flags = kErase THEN
        LET eie1 == eie \/ (first_loop /\ ~approx) IN
        IF HAM_FIND_LT_MATCH \in flags THEN
          LET p == get_previous_sibling(W.idx, node) IN
          IF p = NoKey THEN out("break", HAM_SUCCESS, W, approx, eie1, NoRec)
          ELSE FindWalkWrongSibling(W, bt, c, txn, TRUE, flags, p, Len(W.idx[p]), FALSE, eie1)
        ELSE IF HAM_FIND_GT_MATCH \in flags THEN
          LET n == get_previous_sibling(W.idx, node) IN
          IF n = NoKey THEN out("break", HAM_SUCCESS, W, approx, eie1, NoRec)
          ELSE FindWalkWrongSibling(W, bt, c, txn, TRUE, flags, n, Len(W.idx[n]), FALSE, eie1)
        ELSE LET r == FindErased(W, bt, c, node, i) IN
             out("return", r.st, r.W, approx, eie1, NoRec)
      ELSE IF op.flags \in InsertKinds THEN
        LET W1 == CoupleCursorToOp(W, c, node, i) IN
        IF approx THEN out("break", HAM_SUCCESS, W1, approx, eie, NoRec)
        ELSE out("return", HAM_SUCCESS, W1, approx, eie, op.record)
      ELSE FindWalkWrongSibling(W, bt, c, txn, approx, flags, node, i - 1, first_loop, eie)
    ELSE out("return", HAM_TXN_CONFLICT, W, approx, eie, NoRec)

RECURSIVE FindWalk(_, _, _, _, _, _, _, _, _, _)
FindWalk(W, bt, c, txn, approx, flags, node, i, first_loop, eie) ==
  LET out(o, st, W1, a, e, rec) ==
        [out |-> o, st |-> st, W |-> W1, approx |-> a, node |-> node, i |-> i,
         exact_is_erased |-> e, record |-> rec]
  IN
  IF node = NoKey \/ i = 0 THEN out("end", HAM_SUCCESS, W, approx, eie, NoRec)
  ELSE LET op == W.idx[node][i] IN
    IF is_aborted(op.txn)
      THEN FindWalk(W, bt, c, txn, approx, flags, node, i - 1, first_loop, eie)
    ELSE IF is_committed(op.txn) \/ txn = op.txn THEN
      IF op.flushed
        THEN FindWalk(W, bt, c, txn, approx, flags, node, i - 1, first_loop, eie)
      ELSE IF op.flags = kErase THEN
        LET eie1 == eie \/ (first_loop /\ ~approx) IN
        IF HAM_FIND_LT_MATCH \in flags THEN
          LET p == get_previous_sibling(W.idx, node) IN
          IF p = NoKey THEN out("break", HAM_SUCCESS, W, approx, eie1, NoRec)
          ELSE FindWalk(W, bt, c, txn, TRUE, flags, p, Len(W.idx[p]), FALSE, eie1)
        ELSE IF HAM_FIND_GT_MATCH \in flags THEN
          LET n == get_next_sibling(W.idx, node) IN
          IF n = NoKey THEN out("break", HAM_SUCCESS, W, approx, eie1, NoRec)
          ELSE FindWalk(W, bt, c, txn, TRUE, flags, n, Len(W.idx[n]), FALSE, eie1)
        ELSE LET r == FindErased(W, bt, c, node, i) IN
             out("return", r.st, r.W, approx, eie1, NoRec)
      ELSE IF op.flags \in InsertKinds THEN
        LET W1 == CoupleCursorToOp(W, c, node, i) IN
        IF approx THEN out("break", HAM_SUCCESS, W1, approx, eie, NoRec)
        ELSE out("return", HAM_SUCCESS, W1, approx, eie, op.record)
      ELSE FindWalk(W, bt, c, txn, approx, flags, node, i - 1, first_loop, eie)
    ELSE out("return", HAM_TXN_CONFLICT, W, approx, eie, NoRec)

\* what find_txn returns: the status, the world, the key and record handed
\* back, the approximate-match flag of the key, and the number of re-entries
FindResult(st, W, k, a, rec, d) ==
  [st |-> st, W |-> W, key |-> k, approx |-> a, record |-> rec, depth |-> d]

\* LocalDatabase::find_txn(cursor, txn, key, record, flags); depth counts the
\* re-entries
RECURSIVE find_txn(_, _, _, _, _, _, _)

\* find_txn after the B-tree was asked for an approximate match (r) and the
\* cursor's B-tree side (W2) follows it: the walk w ended on the candidate of
\* the overlay, the closer of the two wins
FindCompare(W2, bt, c, txn, flags1, depth, w, r) ==
  LET txnkey == w.node
      cmp == compare_keys(r.key, txnkey)
      use_btree == IF HAM_FIND_GT_MATCH \in flags1 THEN cmp < 0
                   ELSE IF HAM_FIND_LT_MATCH \in flags1 THEN cmp > 0
                   ELSE FALSE
  IN IF r.st # HAM_KEY_NOT_FOUND /\ ~r.approx /\ HAM_FIND_EXACT_MATCH \in flags1
       THEN FindResult(HAM_SUCCESS, IF c = NoCursor THEN W2 ELSE couple_to_btree(W2, c),
                       r.key, FALSE, r.record, depth)
     ELSE IF r.st # HAM_KEY_NOT_FOUND /\ use_btree THEN
       LET rr == find_txn(W2, bt, c, txn, r.key,
                          flags1 \cup {HAM_FIND_EXACT_MATCH}, depth + 1)
       IN IF rr.st = HAM_SUCCESS THEN [rr EXCEPT !.approx = TRUE] ELSE rr
     ELSE FindResult(HAM_SUCCESS, CoupleCursorToOp(W2, c, w.node, w.i),
                     txnkey, TRUE, w.W.idx[w.node][w.i].record, depth)

\* the flags find_txn hands to m_btree_index->find after the walk w: only on
\* the way of an approximate match of the overlay (op # 0 and the key marked
\* approximate) is ExactMatch taken out when the requested key was erased
BtreeLookupFlags(flags, w) ==
  IF w.out = "break" /\ w.approx /\ w.exact_is_erased
    THEN flags \ {HAM_FIND_EXACT_MATCH}
    ELSE flags

\* find_txn after the walk w over the op chains
FindPostWalk(bt, c, txn, key, flags, depth, w) ==
  IF w.out = "return"
    THEN FindResult(w.st, w.W, key, w.approx, w.record, depth)
  ELSE IF w.out = "break" /\ w.approx THEN
    LET flags1 == BtreeLookupFlags(flags, w)
        r == BtreeFind(bt, key, flags1)
    IN FindCompare(BtreeCursorFind(IF c = NoCursor THEN w.W
                                   ELSE set_to_nil_btree(w.W, c), c, r),
                   bt, c, txn, flags1, depth, w, r)
  ELSE
    LET r == BtreeFind(bt, key, BtreeLookupFlags(flags, w)) IN
    FindResult(r.st, BtreeCursorFind(w.W, c, r), r.key,
               IF r.st = HAM_SUCCESS THEN r.approx ELSE w.approx, r.record, depth)

find_txn(W, bt, c, txn, key, flags, depth) ==
  FindPostWalk(bt, c, txn, key, flags, depth,
               FindWalk(W, bt, c, txn, FALSE, flags, txn_index_get(W.idx, key, flags),
                        IF txn_index_get(W.idx, key, flags) = NoKey THEN 0
                        ELSE Len(W.idx[txn_index_get(W.idx, key, flags)]),
                        TRUE, FALSE))


\* ------------------------------------------------- cursor bookkeeping passes
\* BtreeCursor::points_to(key)
points_to(W, c, k) == W.cur[c].btree = k

\* LocalDatabase::increment_dupe_index(node, skip, start)
increment_dupe_index(W, node, skip, start) ==
  LET hit(c) == IF W.cur[c].coupled_to_txnop
                  THEN get_coupled_op(W.idx, c)[1] = node
                  ELSE points_to(W, c, node)
  IN [W EXCEPT !.cur =
        [c \in DOMAIN W.cur |->
           IF c = skip \/ is_nil(W, c) THEN W.cur[c]
           ELSE IF hit(c) /\ W.cur[c].dupecache_index > start
             THEN [W.cur[c] EXCEPT !.dupecache_index = @ + 1]
           ELSE W.cur[c]]]

\* LocalDatabase::nil_all_cursors_in_node(txn, current, node): op i of the
\* node, position j in its cursor list; after a cursor is nil'd the list is
\* walked again from its head
\* the pass without the duplicate index of current: every cursor of the node
\* is nil'd
RECURSIVE NilCursorsFromAll(_, _, _, _, _)
NilCursorsFromAll(W, current, node, i, j) ==
  IF i = 0 THEN W
  ELSE IF j > Len(W.idx[node][i].cursor_list)
    THEN NilCursorsFromAll(W, current, node, i - 1, 1)
  ELSE NilCursorsFromAll(
         [set_to_nil_txn(couple_to_btree(W, W.idx[node][i].cursor_list[j]),
                         W.idx[node][i].cursor_list[j])
            EXCEPT !.cur[W.idx[node][i].cursor_list[j]].lastop = kLookupOrInsert],
         current, node, i, 1)
RECURSIVE NilCursorsFrom(_, _, _, _, _)
NilCursorsFrom(W, current, node, i, j) ==
  IF i = 0 THEN W
  ELSE LET list == W.idx[node][i].cursor_list IN
    IF j > Len(list) THEN NilCursorsFrom(W, current, node, i - 1, 1)
    ELSE LET parent == list[j]
             d == IF current = NoCursor THEN 0 ELSE W.cur[current].dupecache_index
         IN IF d # 0 /\ d < W.cur[parent].dupecache_index
              THEN NilCursorsFrom([W EXCEPT !.cur[parent].dupecache_index = @ - 1],
                                  current, node, i, j + 1)
            ELSE IF d # 0 /\ d > W.cur[parent].dupecache_index
              THEN NilCursorsFrom(W, current, node, i, j + 1)
            ELSE LET W1 == set_to_nil_txn(couple_to_btree(W, parent), parent)
                     W2 == [W1 EXCEPT !.cur[parent].lastop = kLookupOrInsert]
                 IN NilCursorsFrom(W2, current, node, i, 1)
nil_all_cursors_in_node(W, current, node) ==
  NilCursorsFrom(W, current, node, Len(W.idx[node]), 1)

\* LocalDatabase::nil_all_cursors_in_btree(current, key)
nil_all_cursors_in_btree(W, current, k) ==
  LET d == IF current = NoCursor THEN 0 ELSE W.cur[current].dupecache_index
      one(V, c) ==
        IF is_nil(W, c) \/ c = current \/ W.cur[c].coupled_to_txnop THEN V
        ELSE IF ~points_to(W, c, k) THEN V
        ELSE IF d # 0 /\ d < W.cur[c].dupecache_index
          THEN [V EXCEPT !.cur[c].dupecache_index = @ - 1]
        ELSE IF d # 0 /\ d > W.cur[c].dupecache_index THEN V
        ELSE set_to_nil_both(V, c)
      RECURSIVE all(_, _)
      all(V, S) == IF S = {} THEN V
                   ELSE LET c == CHOOSE x \in S : TRUE IN all(one(V, c), S \ {c})
  IN all(W, DOMAIN W.cur)

\* ------------------------------------------------- insert_txn / erase_txn
OpKind(flags) ==
  IF HAM_DUPLICATE \in flags THEN kInsertDuplicate
  ELSE IF HAM_OVERWRITE \in flags THEN kInsertOverwrite
  ELSE kInsert

\* Cursor::get_dupecache_index of the cursor handed to insert_txn / erase_txn
DupeIndexOf(W, c) == IF c = NoCursor THEN 0 ELSE W.cur[c].dupecache_index

\* the journal entries insert_txn and erase_txn append for op: one, when
\* recovery and transactions are both enabled
Journaled(kind, op, flags) ==
  IF HAM_ENABLE_RECOVERY \in m_config.flags /\ HAM_ENABLE_TRANSACTIONS \in m_config.flags
    THEN <<[op |-> kind, txn |-> op.txn, key |-> op.key, flags |-> flags,
            lsn |-> op.lsn]>>
    ELSE <<>>
\* the Insert record written with the flags of the caller as they are
InsertJournalFlagsAsGiven(flags) == flags
\* the flags of the journal's Insert record
InsertJournalFlags(flags) ==
  IF HAM_DUPLICATE \in flags THEN flags ELSE flags \cup {HAM_OVERWRITE}
\* the flags of the journal's Erase record
EraseJournalFlags(flags) == flags \cup {HAM_ERASE_ALL_DUPLICATES}
\* the duplicate index of the journal's Erase record
EraseJournalDupe(op) == 0
\* the Erase record of erase_txn: Journal::append_erase(db, txn, key, 0, flags, lsn)
EraseJournaled(op) ==
  IF Journaled("erase", op, EraseJournalFlags(op.orig_flags)) = <<>> THEN <<>>
  ELSE <<Journaled("erase", op, EraseJournalFlags(op.orig_flags))[1]
           @@ [dupe |-> EraseJournalDupe(op)]>>
\* insert_txn / erase_txn leaving the node it created in the index
ConflictKeepsNode(st, W, l, k, node_created) ==
  [st |-> st, lsn |-> l, journal |-> <<>>, W |-> W]
\* the end of insert_txn / erase_txn on a conflict: a node that was created
\* for the call is removed again
Conflict(st, W, l, k, node_created) ==
  [st |-> st, lsn |-> l, journal |-> <<>>,
   W |-> IF node_created THEN [W EXCEPT !.idx = RemoveNode(@, k)] ELSE W]

\* insert_txn after the conflict check: the op is appended to the node, the
\* cursor is coupled to it and the other cursors of the key are adjusted
\* insert_txn appending the op without get_incremented_lsn moving the counter
InsertAppendSameLsn(W, l, k, c, d, op) ==
  [st |-> HAM_SUCCESS, lsn |-> l,
   journal |-> Journaled("insert", op, InsertJournalFlags(op.orig_flags)),
   W |-> IF c = NoCursor THEN [W EXCEPT !.idx = NodeAppend(@, k, op)]
         ELSE increment_dupe_index(
                couple_to_op([W EXCEPT !.idx = NodeAppend(@, k, op)],
                             c, k, Len(W.idx[k]) + 1), k, c, d)]
InsertAppend(W, l, k, c, d, op) ==
  [st |-> HAM_SUCCESS, lsn |-> l + 1,
   journal |-> Journaled("insert", op, InsertJournalFlags(op.orig_flags)),
   W |-> IF c = NoCursor THEN [W EXCEPT !.idx = NodeAppend(@, k, op)]
         ELSE increment_dupe_index(
                couple_to_op([W EXCEPT !.idx = NodeAppend(@, k, op)],
                             c, k, Len(W.idx[k]) + 1), k, c, d)]

\* insert_txn with the node of the key in place
InsertChecked(W, l, txn, k, rec, flags, c, node_created, st) ==
  IF st # HAM_SUCCESS THEN Conflict(st, W, l, k, node_created)
  ELSE InsertAppend(W, l, k, c, DupeIndexOf(W, c),
                    [NewOp(txn, flags, OpKind(flags), l + 1, k, rec)
                       EXCEPT !.referenced_dupe = DupeIndexOf(W, c)])
InsertInNode(W, bt, l, txn, k, rec, flags, c, node_created) ==
  InsertChecked(W, l, txn, k, rec, flags, c, node_created,
                check_insert_conflicts(txn, W.idx, bt, k, flags))

\* LocalDatabase::insert_txn(txn, key, record, flags, cursor): the status, the
\* world and the LSN counter it leaves
insert_txn(W, bt, l, txn, k, rec, flags, c) ==
  IF HasNode(W.idx, k)
    THEN InsertInNode(W, bt, l, txn, k, rec, flags, c, FALSE)
    ELSE InsertInNode([W EXCEPT !.idx = StoreNode(@, k)], bt, l, txn, k, rec, flags, c, TRUE)

\* erase_txn after the conflict check: the op is appended, the cursors of
\* the key are uncoupled
EraseAppend(W, l, k, c, op) ==
  [st |-> HAM_SUCCESS, lsn |-> l + 1,
   journal |-> EraseJournaled(op),
   W |-> nil_all_cursors_in_btree(
           nil_all_cursors_in_node([W EXCEPT !.idx = NodeAppend(@, k, op)], c, k), c, k)]
EraseChecked(W, l, txn, k, c, node_created, st) ==
  IF st # HAM_SUCCESS THEN Conflict(st, W, l, k, node_created)
  ELSE EraseAppend(W, l, k, c,
                   [NewOp(txn, {}, kErase, l + 1, k, NoRec)
                      EXCEPT !.referenced_dupe = DupeIndexOf(W, c)])
\* the conflict check is made only when the cursor is not on a duplicate
EraseInNode(W, bt, l, txn, k, c, node_created) ==
  EraseChecked(W, l, txn, k, c, node_created,
               IF DupeIndexOf(W, c) = 0 THEN check_erase_conflicts(txn, W.idx, bt, k)
               ELSE HAM_SUCCESS)

\* LocalDatabase::erase_txn(txn, key, flags, cursor)
erase_txn(W, bt, l, txn, k, c) ==
  IF HasNode(W.idx, k)
    THEN EraseInNode(W, bt, l, txn, k, c, FALSE)
    ELSE EraseInNode([W EXCEPT !.idx = StoreNode(@, k)], bt, l, txn, k, c, TRUE)


\* ------------------------------------------------------ flush_txn_operation
\* LocalDatabase::flush_txn_operation(txn, op) for op i of node k: the status,
\* the B-tree and the world it leaves
RECURSIVE CloneToBtree(_, _, _, _)
CloneToBtree(W, k, i, c1) ==
  LET list == W.idx[k][i].cursor_list IN
  IF list = <<>> THEN W
  ELSE LET c2 == list[1]
           W1 == [W EXCEPT !.cur[c2].btree = W.cur[c1].btree]
       IN CloneToBtree(set_to_nil_txn(couple_to_btree(W1, c2), c2), k, i, c1)

\* flush_txn_operation's cursor handling without set_to_nil(kTxn): the first
\* cursor is coupled to the B-tree item but stays in the op's cursor list
FlushInsertedStillAttached(W, k, i, cursor_list, r) ==
  IF cursor_list = <<>> \/ r.st # HAM_SUCCESS
    THEN [st |-> r.st, bt |-> r.bt, W |-> W]
    ELSE [st |-> r.st, bt |-> r.bt,
          W |-> couple_to_btree([W EXCEPT !.cur[cursor_list[1]].btree = k],
                                cursor_list[1])]
FlushInserted(W, k, i, cursor_list, r) ==
  IF cursor_list = <<>> \/ r.st # HAM_SUCCESS
    THEN [st |-> r.st, bt |-> r.bt, W |-> W]
    ELSE [st |-> r.st, bt |-> r.bt,
          W |-> CloneToBtree(
                  set_to_nil_txn(
                    couple_to_btree([W EXCEPT !.cur[cursor_list[1]].btree = k],
                                    cursor_list[1]), cursor_list[1]),
                  k, i, cursor_list[1])]
\* flush_txn_operation without the special case of the absent key
FlushErasedUnmapped(W, r) == [st |-> r.st, bt |-> r.bt, W |-> W]
FlushErased(W, r) ==
  [st |-> IF r.st = HAM_KEY_NOT_FOUND THEN HAM_SUCCESS ELSE r.st, bt |-> r.bt, W |-> W]
\* flush_txn_operation setting kIsFlushed on the op itself
FlushOneMarked(W, bt, k, i, op) ==
  [st |-> HAM_SUCCESS, bt |-> bt, W |-> [W EXCEPT !.idx[k][i].flushed = TRUE]]
FlushOne(W, bt, k, i, op) ==
  IF op.flags \in InsertKinds THEN
    FlushInserted(W, k, i, op.cursor_list,
                  BtreeInsert(bt, k, op.record,
                              op.orig_flags \cup {IF op.flags = kInsertDuplicate
                                                    THEN HAM_DUPLICATE ELSE HAM_OVERWRITE}))
  ELSE IF op.flags = kErase THEN FlushErased(W, BtreeErase(bt, k, op.referenced_dupe))
  ELSE [st |-> HAM_SUCCESS, bt |-> bt, W |-> W]
flush_txn_operation(W, bt, k, i) == FlushOne(W, bt, k, i, W.idx[k][i])

\* ---------------------------------------------------------------- wrappers
\* insert_impl, the coupling of the cursor to the inserted key: the position
\* of the new op in the dupecache dc becomes the cursor's dupecache_index
InsertDupeIndex(W, c, l, dc) ==
  LET pos == {p \in 1..Len(dc) : dc[p] = <<"txn", l>>} IN
  [W EXCEPT !.cur[c].dupecache_index = IF pos = {} THEN @ ELSE Min(pos),
            !.cur[c].lastop = kLookupOrInsert]
InsertCoupled(W, bt, c, l) ==
  InsertDupeIndex(W, c, l, IF EnableDuplicateKeys THEN DupeCache(W, bt, c) ELSE <<>>)
InsertReturned(bt, c, r) ==
  IF r.st # HAM_SUCCESS \/ c = NoCursor THEN r
  ELSE [r EXCEPT !.W = InsertCoupled(
                         DupeSyncIf(set_to_nil_btree(couple_to_txnop(r.W, c), c), bt, c),
                         bt, c, r.lsn)]

\* LocalDatabase::insert_impl(cursor, txn, key, record, flags) with a caller
\* transaction
insert_impl(W, bt, l, c, txn, k, rec, flags) ==
  InsertReturned(bt, c, insert_txn(W, bt, l, txn, k, rec, flags, c))

\* erase_impl leaving the cursor as erase_txn left it
EraseReturnedAsIs(c, r) == r
\* erase_impl after erase_txn: on success the cursor is nil
EraseReturned(c, r) ==
  IF c = NoCursor \/ r.st # HAM_SUCCESS THEN r
  ELSE [r EXCEPT !.W = [couple_to_btree(set_to_nil_both(r.W, c), c)
                          EXCEPT !.cur[c].dupecache_index = 0]]

\* LocalDatabase::erase_impl(cursor, txn, key, flags) with a caller transaction
erase_impl(W, bt, l, c, txn, k) ==
  EraseReturned(c,
    IF c = NoCursor THEN erase_txn(W, bt, l, txn, k, NoCursor)
    ELSE IF ~W.cur[c].coupled_to_txnop
      THEN erase_txn(set_to_nil_txn(W, c), bt, l, txn, W.cur[c].btree, c)
      ELSE erase_txn(W, bt, l, txn, get_coupled_op(W.idx, c)[1], c))

\* cursor_find after find_impl succeeded: the sync, then the coupling to the
\* first duplicate, then lastop
CursorFindDupes(W2, bt, c, dc) ==
  IF dc = <<>> THEN W2
  ELSE couple_to_dupe(IF dc[1][1] = "btree" THEN couple_to_btree(W2, c)
                      ELSE couple_to_txnop(W2, c), c, dc, 1)
CursorFindSynced(W2, bt, c) ==
  [CursorFindDupes(W2, bt, c, IF EnableDuplicateKeys THEN DupeCache(W2, bt, c) ELSE <<>>)
     EXCEPT !.cur[c].lastop = kLookupOrInsert]
CursorFindSync(bt, c, s) ==
  CursorFindSynced(DupeSyncIf(IF s.is_equal THEN s.W ELSE set_to_nil_btree(s.W, c), bt, c),
                   bt, c)
CursorFindFound(bt, c, r) ==
  IF r.st # HAM_SUCCESS THEN r
  ELSE [r EXCEPT !.W = CursorFindSync(bt, c, sync(r.W, bt, c))]

\* LocalDatabase::cursor_find(cursor, key, record, flags)
cursor_find(W, bt, c, k, flags) ==
  CursorFindFound(bt, c,
    find_txn(set_to_nil_both([W EXCEPT !.cur[c].dupecache_index = 0], c),
             bt, c, W.cur[c].txn, k, flags, 0))

\* LocalDatabase::find(txn, key, record, flags): with duplicates enabled a
\* cursor is created for the call, used for cursor_find and closed again
TmpCursor == MaxCursor + 1
find(W, bt, txn, k, flags) ==
  IF EnableDuplicateKeys THEN
    LET Wt == [W EXCEPT !.cur = [c \in (DOMAIN W.cur) \cup {TmpCursor} |->
                                   IF c = TmpCursor THEN NewCursor(txn) ELSE W.cur[c]]]
    IN cursor_find(Wt, bt, TmpCursor, k, flags)
  ELSE find_txn(W, bt, NoCursor, txn, k, flags, 0)


\* ------------------------------------------------------------------ actions
TxnInsertFlags == {{}, {HAM_OVERWRITE}, {HAM_DUPLICATE}}
CursorInsertFlags == {{HAM_OVERWRITE}, {HAM_DUPLICATE},
                      {HAM_DUPLICATE, HAM_DUPLICATE_INSERT_FIRST}}
CursorFindFlags == {{}, {HAM_FIND_GT_MATCH}}
FindFlags == {{}, {HAM_FIND_LT_MATCH}, {HAM_FIND_GT_MATCH},
              {HAM_FIND_LT_MATCH, HAM_FIND_EXACT_MATCH},
              {HAM_FIND_GT_MATCH, HAM_FIND_EXACT_MATCH}}

TheWorld == World(m_txn_index, m_cursor_list)

\* the public call made last and the status it returned
Called(op, st) == [op |-> op, st |-> st]
NoCall == Called("none", HAM_SUCCESS)

\* the B-trees a database can hold when it is opened
InitialBtrees == [Keys -> {<<>>, <<OldRec>>}]

\* a database of an environment with transactions, without recovery, its keys
\* given by the caller
TxnConfig == [flags |-> {HAM_ENABLE_TRANSACTIONS}, recno |-> 0]

Init ==
  /\ txns = [t \in Txns |-> "unused"]
  /\ m_txn_index = <<>>
  /\ m_btree \in InitialBtrees
  /\ m_cursor_list = <<>>
  /\ lsn = 0
  /\ last = NoCall
  /\ m_config = TxnConfig

\* TxnManager::begin: transactions get increasing ids
Begin(t) ==
  /\ txns[t] = "unused"
  /\ \A u \in DOMAIN txns : u < t => txns[u] # "unused"
  /\ txns' = [txns EXCEPT ![t] = "active"]
  /\ last' = NoCall
  /\ UNCHANGED <<m_txn_index, m_btree, m_cursor_list, lsn, m_config>>

\* TxnManager::commit
Commit(t) ==
  /\ is_active(t)
  /\ txns' = [txns EXCEPT ![t] = "committed"]
  /\ last' = NoCall
  /\ UNCHANGED <<m_txn_index, m_btree, m_cursor_list, lsn, m_config>>

\* TxnManager::abort
Abort(t) ==
  /\ is_active(t)
  /\ txns' = [txns EXCEPT ![t] = "aborted"]
  /\ last' = NoCall
  /\ UNCHANGED <<m_txn_index, m_btree, m_cursor_list, lsn, m_config>>

\* a call that appends to the op log ends: r is what insert_impl or erase_impl
\* returned
Returned(name, r) ==
  /\ m_txn_index' = r.W.idx
  /\ m_cursor_list' = r.W.cur
  /\ lsn' = r.lsn
  /\ last' = Called(name, r.st)
  /\ UNCHANGED <<txns, m_btree, m_config>>

\* LocalDatabase::insert(txn, key, record, flags)
Insert(t, k, rec, flags) ==
  /\ is_active(t)
  /\ lsn < MaxLsn
  /\ Returned("insert", insert_impl(TheWorld, m_btree, lsn, NoCursor, t, k, rec, flags))

\* LocalDatabase::erase(txn, key, flags)
Erase(t, k) ==
  /\ is_active(t)
  /\ lsn < MaxLsn
  /\ Returned("erase", erase_impl(TheWorld, m_btree, lsn, NoCursor, t, k))

\* LocalDatabase::find(txn, key, record, flags)
Find(t, k, flags) ==
  /\ is_active(t)
  /\ last' = Called("find", find(TheWorld, m_btree, t, k, flags).st)
  /\ UNCHANGED <<txns, m_txn_index, m_btree, m_cursor_list, lsn, m_config>>

\* LocalDatabase::cursor_insert(cursor, key, record, flags)
CursorInsert(c, k, rec, flags) ==
  /\ c \in DOMAIN m_cursor_list
  /\ is_active(m_cursor_list[c].txn)
  /\ lsn < MaxLsn
  /\ Returned("cursor_insert",
              insert_impl(TheWorld, m_btree, lsn, c, m_cursor_list[c].txn, k, rec, flags))

\* LocalDatabase::cursor_erase(cursor, flags)
CursorErase(c) ==
  /\ c \in DOMAIN m_cursor_list
  /\ is_active(m_cursor_list[c].txn)
  /\ lsn < MaxLsn
  /\ IF is_nil(TheWorld, c)
       THEN /\ last' = Called("cursor_erase", HAM_CURSOR_IS_NIL)
            /\ UNCHANGED <<txns, m_txn_index, m_btree, m_cursor_list, lsn, m_config>>
       ELSE Returned("cursor_erase",
                     erase_impl(TheWorld, m_btree, lsn, c, m_cursor_list[c].txn, NoKey))

\* LocalDatabase::cursor_find(cursor, key, record, flags)
CursorFound(r) ==
  /\ m_txn_index' = r.W.idx
  /\ m_cursor_list' = r.W.cur
  /\ last' = Called("cursor_find", r.st)
  /\ UNCHANGED <<txns, m_btree, lsn, m_config>>
CursorFind(c, k, flags) ==
  /\ c \in DOMAIN m_cursor_list
  /\ is_active(m_cursor_list[c].txn)
  /\ CursorFound(cursor_find(TheWorld, m_btree, c, k, flags))

\* TxnManager::flush_committed_txns, one op at a time: the oldest op not yet
\* flushed of the oldest committed transaction is applied to the B-tree with
\* flush_txn_operation and then marked flushed
AllOps(idx) == {<<k, i>> \in (DOMAIN idx) \X (1..MaxLsn + 1) : i <= Len(idx[k])}
Flushable(idx) ==
  {x \in AllOps(idx) :
     LET op == idx[x[1]][x[2]] IN
     /\ is_committed(op.txn) /\ ~op.flushed
     /\ \A y \in AllOps(idx) :
          LET o == idx[y[1]][y[2]] IN
          (o.lsn < op.lsn /\ ~o.flushed) => is_aborted(o.txn)}
Flushed(k, i, r) ==
  /\ m_btree' = r.bt
  /\ m_cursor_list' = r.W.cur
  /\ m_txn_index' = [r.W.idx EXCEPT ![k][i].flushed = TRUE]
  /\ last' = Called("flush", r.st)
  /\ UNCHANGED <<txns, lsn, m_config>>
FlushOp(x) == Flushed(x[1], x[2], flush_txn_operation(TheWorld, m_btree, x[1], x[2]))
Flush ==
  /\ Flushable(m_txn_index) # {}
  /\ FlushOp(CHOOSE y \in Flushable(m_txn_index) : TRUE)

\* the overlay without cursors: transactions, insert, erase, find and flush
NextTxn ==
  \/ \E t \in Txns : Begin(t)
  \/ \E t \in Txns : Commit(t)
  \/ \E t \in Txns : Abort(t)
  \/ \E t \in Txns, k \in Keys, flags \in TxnInsertFlags : Insert(t, k, lsn + 1, flags)
  \/ \E t \in Txns, k \in Keys : Erase(t, k)
  \/ \E t \in Txns, k \in Keys, flags \in FindFlags : Find(t, k, flags)
  \/ Flush

SpecTxn == Init /\ [][NextTxn]_vars

\* the state after the transactions TS were begun and a cursor was created
\* (cursor_create) for each id of CS, on B-trees that hold keys of KS only
InitWith(CS, TS, KS) ==
  /\ txns = [t \in Txns |-> IF t \in TS THEN "active" ELSE "unused"]
  /\ m_txn_index = <<>>
  /\ m_btree \in {b \in InitialBtrees : \A k \in Keys \ KS : b[k] = <<>>}
  /\ m_cursor_list \in [CS -> {NewCursor(t) : t \in TS}]
  /\ lsn = 0
  /\ last = NoCall
  /\ m_config = TxnConfig

\* the calls of the cursors CS and of the transactions TS on the keys KS, with
\* at most cap ops appended
NextWith(CS, TS, KS, cap) ==
  \/ \E t \in TS : Commit(t)
  \/ lsn < cap /\ \E t \in TS, k \in KS, flags \in CursorInsertFlags :
       Insert(t, k, lsn + 1, flags)
  \/ lsn < cap /\ \E t \in TS, k \in KS : Erase(t, k)
  \/ lsn < cap /\ \E c \in CS, k \in KS, flags \in CursorInsertFlags :
       CursorInsert(c, k, lsn + 1, flags)
  \/ lsn < cap /\ \E c \in CS : CursorErase(c)
  \/ \E c \in CS, k \in KS, flags \in CursorFindFlags : CursorFind(c, k, flags)
  \/ Flush

\* one cursor, two transactions, two keys
InitCursor == InitWith(1..MaxCursorOne, Txns, Keys)
NextCursor == NextWith(1..MaxCursorOne, Txns, Keys, MaxCursorLsn)
SpecCursor == InitCursor /\ [][NextCursor]_vars

\* the cursors of one transaction on the duplicates of one key
InitDupe == InitWith(Cursors, 1..MaxDupeTxn, 1..MaxDupeKey)
NextDupe == NextWith(Cursors, 1..MaxDupeTxn, 1..MaxDupeKey, MaxLsn)
SpecDupe == InitDupe /\ [][NextDupe]_vars

\* one transaction writing and reading four keys without a cursor: the
\* B-tree and the overlay hold enough keys for find_txn to go from node to
\* node and from the overlay to the B-tree and back
FindKeys == 1..MaxFindKey
FindInsertFlags == {{}, {HAM_OVERWRITE}}
InitFind ==
  /\ txns = [t \in Txns |-> IF t = 1 THEN "active" ELSE "unused"]
  /\ m_txn_index = <<>>
  /\ m_btree \in [FindKeys -> {<<>>, <<OldRec>>}]
  /\ m_cursor_list = <<>>
  /\ lsn = 0
  /\ last = NoCall
  /\ m_config = TxnConfig
NextFind ==
  \/ lsn < MaxFindLsn /\ \E k \in FindKeys, flags \in FindInsertFlags : Insert(1, k, lsn + 1, flags)
  \/ lsn < MaxFindLsn /\ \E k \in FindKeys : Erase(1, k)
  \/ \E k \in FindKeys, flags \in FindFlags : Find(1, k, flags)
SpecFind == InitFind /\ [][NextFind]_vars

\* one cursor, two transactions and two keys in an environment with recovery:
\* the overlay writes are journaled
JournalConfig == [flags |-> {HAM_ENABLE_TRANSACTIONS, HAM_ENABLE_RECOVERY}, recno |-> 0]
InitJournal ==
  /\ txns = [t \in Txns |-> "active"]
  /\ m_txn_index = <<>>
  /\ m_btree \in InitialBtrees
  /\ m_cursor_list \in [1..MaxCursorOne -> {NewCursor(t) : t \in Txns}]
  /\ lsn = 0
  /\ last = NoCall
  /\ m_config = JournalConfig
NextJournal == NextWith(1..MaxCursorOne, Txns, Keys, MaxCursorLsn)
SpecJournal == InitJournal /\ [][NextJournal]_vars

\* cursor_insert statement by statement, in an environment with recovery: the
\* call in progress is kept in last, with its position (pc), its cursor, its
\* key and the journal records it has written so far
InCall == "pc" \in DOMAIN last
AtStep(pc) == InCall /\ last.pc = pc
InsertStep(pc, c, k, journal) ==
  [op |-> "cursor_insert", st |-> HAM_SUCCESS, pc |-> pc, cursor |-> c, key |-> k,
   journal |-> journal]
\* the op the call in progress appended
StepOp == m_txn_index[last.key][Len(m_txn_index[last.key])]
\* insert_txn up to node->append: the node, the conflict check, the new op
StepAppended(c, k, op) ==
  /\ m_txn_index' = NodeAppend(IF HasNode(m_txn_index, k) THEN m_txn_index
                               ELSE StoreNode(m_txn_index, k), k, op)
  /\ lsn' = lsn + 1
  /\ last' = InsertStep("appended", c, k, <<>>)
  /\ UNCHANGED <<txns, m_btree, m_cursor_list, m_config>>
StepConflict(st) ==
  /\ last' = Called("cursor_insert", st)
  /\ UNCHANGED <<txns, m_txn_index, m_btree, m_cursor_list, lsn, m_config>>
StepChecked(c, k, rec, flags, st) ==
  IF st # HAM_SUCCESS THEN StepConflict(st)
  ELSE StepAppended(c, k, NewOp(m_cursor_list[c].txn, flags, OpKind(flags), lsn + 1, k, rec))
StepAppend(c, k, rec, flags) ==
  /\ ~InCall
  /\ c \in DOMAIN m_cursor_list
  /\ is_active(m_cursor_list[c].txn)
  /\ lsn < MaxLsn
  /\ StepChecked(c, k, rec, flags,
                 check_insert_conflicts(m_cursor_list[c].txn,
                                        IF HasNode(m_txn_index, k) THEN m_txn_index
                                        ELSE StoreNode(m_txn_index, k),
                                        m_btree, k, flags))
\* insert_txn, the cursor block: referenced_dupe, couple_to_op and
\* increment_dupe_index
StepCoupled(W, c, k, n, d) ==
  increment_dupe_index(
    couple_to_op([W EXCEPT !.idx[k][n].referenced_dupe = d], c, k, n), k, c, d)
StepCouple ==
  /\ AtStep("appended")
  /\ m_txn_index' = StepCoupled(TheWorld, last.cursor, last.key, Len(m_txn_index[last.key]),
                                DupeIndexOf(TheWorld, last.cursor)).idx
  /\ m_cursor_list' = StepCoupled(TheWorld, last.cursor, last.key,
                                  Len(m_txn_index[last.key]),
                                  DupeIndexOf(TheWorld, last.cursor)).cur
  /\ last' = [last EXCEPT !.pc = "coupled"]
  /\ UNCHANGED <<txns, m_btree, lsn, m_config>>
\* insert_txn, the journal entry
StepJournal ==
  /\ AtStep("coupled")
  /\ last' = [last EXCEPT !.pc = "journaled",
                          !.journal = Journaled("insert", StepOp,
                                                InsertJournalFlags(StepOp.orig_flags))]
  /\ UNCHANGED <<txns, m_txn_index, m_btree, m_cursor_list, lsn, m_config>>
\* insert_impl after insert_txn returned: the cursor is coupled to the
\* inserted key
StepReturn ==
  /\ AtStep("journaled")
  /\ Returned("cursor_insert",
              InsertReturned(m_btree, last.cursor,
                             [st |-> HAM_SUCCESS, lsn |-> lsn, journal |-> last.journal,
                              W |-> TheWorld]))
StepCursors == 1..MaxCursor
StepKeys == 1..MaxDupeKey
InitSteps ==
  /\ txns = [t \in Txns |-> IF t = 1 THEN "active" ELSE "unused"]
  /\ m_txn_index = <<>>
  /\ m_btree \in {b \in InitialBtrees : \A k \in Keys \ StepKeys : b[k] = <<>>}
  /\ m_cursor_list = [c \in StepCursors |-> NewCursor(1)]
  /\ lsn = 0
  /\ last = NoCall
  /\ m_config = JournalConfig
NextSteps ==
  \/ \E c \in StepCursors, k \in StepKeys,
          flags \in TxnInsertFlags \cup CursorInsertFlags :
       StepAppend(c, k, lsn + 1, flags)
  \/ StepCouple
  \/ StepJournal
  \/ StepReturn
  \/ ~InCall /\ \E c \in StepCursors, k \in StepKeys, flags \in CursorFindFlags :
                  CursorFind(c, k, flags)
SpecSteps == InitSteps /\ [][NextSteps]_vars

\* ------------------------------------------------- the wrappers and finalize
\* no transaction: the htxn of a call without one, the local_txn of a wrapper
\* that began none
NoTxn == 0
\* the page of the B-tree (its root: the keys of the model fit into one leaf)
RootPage == "root"
Transactional == HAM_ENABLE_TRANSACTIONS \in m_config.flags
RecordNumber == HAM_RECORD_NUMBER \in m_config.flags

\* TxnManager::begin(0, HAM_TXN_TEMPORARY): the id of the temporary
\* transaction a wrapper begins (NoTxn when it begins none)
NextTxnId == Min({t \in DOMAIN txns : txns[t] = "unused"})
LocalTxn(htxn) == IF htxn = NoTxn /\ Transactional THEN NextTxnId ELSE NoTxn
CallTxn(htxn) == IF htxn # NoTxn THEN htxn ELSE LocalTxn(htxn)
CanCall(htxn) ==
  IF htxn = NoTxn THEN Transactional => \E t \in DOMAIN txns : txns[t] = "unused"
  ELSE is_active(htxn)

\* the transactions once the wrapper has begun its temporary transaction
Begun(htxn) ==
  IF LocalTxn(htxn) = NoTxn THEN txns ELSE [txns EXCEPT ![LocalTxn(htxn)] = "active"]

\* the environment a wrapper hands to finalize: the transactions, the
\* changeset and the LSN counter
Env(ts, pages, l) == [txns |-> ts, changeset |-> pages, lsn |-> l]

\* finalize without the abort of the temporary transaction of a failed call
FinalizeWithoutAbort(E, status, local_txn) ==
  IF status # HAM_SUCCESS THEN
    IF local_txn # NoTxn THEN [E EXCEPT !.changeset = {}] ELSE E
  ELSE IF local_txn # NoTxn
    THEN [E EXCEPT !.changeset = {}, !.txns[local_txn] = "committed"]
  ELSE IF HAM_ENABLE_RECOVERY \in m_config.flags /\ ~Transactional
    THEN [E EXCEPT !.changeset = {}, !.lsn = @ + 1]
  ELSE E
\* finalize without the flush of the changeset
FinalizeWithoutFlush(E, status, local_txn) ==
  IF status # HAM_SUCCESS THEN
    IF local_txn # NoTxn
      THEN [E EXCEPT !.changeset = {}, !.txns[local_txn] = "aborted"]
      ELSE E
  ELSE IF local_txn # NoTxn
    THEN [E EXCEPT !.changeset = {}, !.txns[local_txn] = "committed"]
  ELSE E
\* LocalDatabase::finalize(status, local_txn); Changeset::flush writes the
\* pages and clears the changeset
finalize(E, status, local_txn) ==
  IF status # HAM_SUCCESS THEN
    IF local_txn # NoTxn
      THEN [E EXCEPT !.changeset = {}, !.txns[local_txn] = "aborted"]
      ELSE E
  ELSE IF local_txn # NoTxn
    THEN [E EXCEPT !.changeset = {}, !.txns[local_txn] = "committed"]
  ELSE IF HAM_ENABLE_RECOVERY \in m_config.flags /\ ~Transactional
    THEN [E EXCEPT !.changeset = {}, !.lsn = @ + 1]
  ELSE E
\* return (finalize(st, local_txn)), then FINALIZE_ON_SCOPE_EXIT: the scope
\* exit holds the copies of st and local_txn made where it was declared, both 0
Finalized(E, status, local_txn) ==
  finalize(finalize(E, status, local_txn), HAM_SUCCESS, NoTxn)

\* the chain of the node of key k (empty when there is no node)
ChainOf(k) == IF HasNode(m_txn_index, k) THEN m_txn_index[k] ELSE <<>>
\* the pages check_insert_conflicts and check_erase_conflicts fetch: they ask
\* the B-tree when no op decides
InsertFetches(txn, k, flags) ==
  IF /\ InsertWalk(txn, ChainOf(k), Len(ChainOf(k)), flags) = "fallthrough"
     /\ HAM_OVERWRITE \notin flags
     /\ HAM_DUPLICATE \notin flags
     /\ ~RecordNumber
    THEN {RootPage} ELSE {}
EraseFetches(txn, k) ==
  IF EraseWalk(txn, ChainOf(k), Len(ChainOf(k))) = "fallthrough" THEN {RootPage} ELSE {}

\* the result of a call on the B-tree alone, and of a call on the overlay
OnBtree(r) == [st |-> r.st, W |-> TheWorld, lsn |-> lsn, bt |-> r.bt]
OnOverlay(r) == [st |-> r.st, W |-> r.W, lsn |-> r.lsn, bt |-> m_btree]

\* insert_impl: the record number.  With Overwrite the key is the caller's,
\* else the counter is incremented and gives the key
RecnoKey(k, flags) ==
  IF RecordNumber /\ HAM_OVERWRITE \notin flags THEN m_config.recno + 1 ELSE k
\* insert_impl incrementing the record number for every insert, also with
\* Overwrite
RecnoAfterOverwrite(flags) ==
  IF RecordNumber THEN m_config.recno + 1 ELSE m_config.recno
RecnoAfter(flags) ==
  IF RecordNumber /\ HAM_OVERWRITE \notin flags THEN m_config.recno + 1 ELSE m_config.recno

\* insert_impl(0, htxn, key, record, flags) between the begin of the
\* temporary transaction and finalize
InsertCalled(txn, k, rec, flags) ==
  IF txn # NoTxn
    THEN OnOverlay(insert_impl(TheWorld, m_btree, lsn, NoCursor, txn, k, rec, flags))
    ELSE OnBtree(BtreeInsert(m_btree, k, rec, flags))
InsertPages(txn, k, flags) ==
  IF txn # NoTxn THEN InsertFetches(txn, k, flags) ELSE {RootPage}
\* erase_impl(0, htxn, key, flags)
EraseCalled(txn, k) ==
  IF txn # NoTxn
    THEN OnOverlay(erase_impl(TheWorld, m_btree, lsn, NoCursor, txn, k))
    ELSE OnBtree(BtreeErase(m_btree, k, 0))
ErasePages(txn, k) == IF txn # NoTxn THEN EraseFetches(txn, k) ELSE {RootPage}

\* a wrapper returns: what it leaves in the database and the environment, and
\* the report of the call (the caller's transaction, the key handed back, the
\* changeset as it is when the call returns)
EnvReturned(name, htxn, k, r, E) ==
  /\ m_txn_index' = r.W.idx
  /\ m_cursor_list' = r.W.cur
  /\ m_btree' = r.bt
  /\ txns' = E.txns
  /\ lsn' = E.lsn
  /\ last' = [op |-> name, st |-> r.st, txn |-> htxn, key |-> k,
              changeset |-> E.changeset]
InsertFinalized(htxn, k, flags, r) ==
  EnvReturned("insert", htxn, k, r,
              Finalized(Env(Begun(htxn), InsertPages(CallTxn(htxn), k, flags), r.lsn),
                        r.st, LocalTxn(htxn)))
EraseFinalized(htxn, k, r) ==
  EnvReturned("erase", htxn, k, r,
              Finalized(Env(Begun(htxn), ErasePages(CallTxn(htxn), k), r.lsn),
                        r.st, LocalTxn(htxn)))

EnvInsertFlags == {{}, {HAM_OVERWRITE}}
\* LocalDatabase::insert(htxn, key, record, flags); on a record-number
\* database the key is empty (NoKey) unless Overwrite is given
EnvInsert(htxn, k, rec, flags) ==
  /\ CanCall(htxn)
  /\ lsn < MaxEnvLsn
  /\ k = NoKey => (RecordNumber /\ HAM_OVERWRITE \notin flags)
  /\ RecnoKey(k, flags) \in Keys
  /\ m_config' = [m_config EXCEPT !.recno = RecnoAfter(flags)]
  /\ InsertFinalized(htxn, RecnoKey(k, flags), flags,
                     InsertCalled(CallTxn(htxn), RecnoKey(k, flags), rec, flags))
\* LocalDatabase::erase(htxn, key, flags)
EnvErase(htxn, k) ==
  /\ CanCall(htxn)
  /\ lsn < MaxEnvLsn
  /\ UNCHANGED m_config
  /\ EraseFinalized(htxn, k, EraseCalled(CallTxn(htxn), k))

\* find_txn without a cursor asks the B-tree unless an op of the chain decides
FindFetches(txn, k, flags) ==
  IF FindWalk(TheWorld, m_btree, NoCursor, txn, FALSE, flags,
              txn_index_get(m_txn_index, k, flags),
              IF txn_index_get(m_txn_index, k, flags) = NoKey THEN 0
              ELSE Len(m_txn_index[txn_index_get(m_txn_index, k, flags)]),
              TRUE, FALSE).out # "return"
    THEN {RootPage} ELSE {}
\* find_impl(0, 0, key, record, flags): the status
FindCalled(txn, k, flags) ==
  IF txn # NoTxn THEN find_txn(TheWorld, m_btree, NoCursor, txn, k, flags, 0).st
  ELSE BtreeFind(m_btree, k, flags).st
FindPages(txn, k, flags) ==
  IF txn # NoTxn THEN FindFetches(txn, k, flags) ELSE {RootPage}
FindFinalized(htxn, k, st, E) ==
  /\ txns' = E.txns
  /\ lsn' = E.lsn
  /\ last' = [op |-> "find", st |-> st, txn |-> htxn, key |-> k,
              changeset |-> E.changeset]
  /\ UNCHANGED <<m_txn_index, m_cursor_list, m_btree, m_config>>
\* LocalDatabase::find(htxn, key, record, flags): with a caller transaction
\* and duplicates enabled the call goes through a cursor and clears the
\* changeset itself, else it is find_impl
EnvFind(htxn, k, flags) ==
  /\ CanCall(htxn)
  /\ lsn < MaxEnvLsn
  /\ IF htxn # NoTxn /\ EnableDuplicateKeys
       THEN FindFinalized(htxn, k, find(TheWorld, m_btree, htxn, k, flags).st,
                          Env(txns, {}, lsn))
       ELSE FindFinalized(htxn, k, FindCalled(CallTxn(htxn), k, flags),
                          Finalized(Env(Begun(htxn), FindPages(CallTxn(htxn), k, flags), lsn),
                                    FindCalled(CallTxn(htxn), k, flags), LocalTxn(htxn)))

\* the databases of every configuration: with or without transactions,
\* recovery and record numbers; the counter of a record-number database
\* that is opened is its last key
EnvFlags == SUBSET {HAM_ENABLE_TRANSACTIONS, HAM_ENABLE_RECOVERY, HAM_RECORD_NUMBER}
LastRecno(bt) == Max({0} \cup {k \in Keys : bt[k] # <<>>})
EnvConfig(f, bt) ==
  [flags |-> f, recno |-> IF HAM_RECORD_NUMBER \in f THEN LastRecno(bt) ELSE 0]
InitEnvWith(TS, FS) ==
  /\ txns = [t \in TS |-> "unused"]
  /\ m_txn_index = <<>>
  /\ m_btree \in InitialBtrees
  /\ m_cursor_list = <<>>
  /\ lsn = 0
  /\ last = NoCall
  /\ m_config \in {EnvConfig(f, m_btree) : f \in FS}
\* the wrappers called with and without a transaction of the caller
NextEnvWith(TS) ==
  \/ \E t \in TS : Transactional /\ Begin(t)
  \/ \E t \in TS : Commit(t)
  \/ \E t \in TS : Abort(t)
  \/ \E h \in {NoTxn} \cup TS, k \in {NoKey} \cup Keys, flags \in EnvInsertFlags :
       EnvInsert(h, k, lsn + 1, flags)
  \/ \E h \in {NoTxn} \cup TS, k \in Keys : EnvErase(h, k)
  \/ \E h \in {NoTxn} \cup TS, k \in Keys, flags \in CursorFindFlags :
       EnvFind(h, k, flags)
  \/ Flush
InitEnv == InitEnvWith(Txns, EnvFlags)
NextEnv == NextEnvWith(Txns)
SpecEnv == InitEnv /\ [][NextEnv]_vars

\* the overlay with a third transaction, with and without record numbers: a
\* caller meets ops of a committed and of an aborted transaction
ConflictTxns == 1..MaxConflictTxn
ConflictFlags ==
  {{HAM_ENABLE_TRANSACTIONS}, {HAM_ENABLE_TRANSACTIONS, HAM_RECORD_NUMBER}}
InitConflict == InitEnvWith(ConflictTxns, ConflictFlags)
NextConflict == NextEnvWith(ConflictTxns)
SpecConflict == InitConflict /\ [][NextConflict]_vars

\* ------------------------------------------- cursor calls without a transaction
\* the temporary transaction a wrapper begins for a call through cursor c
\* (NoTxn when the cursor has a transaction), and the transaction of the call
CursorLocalTxn(c) == LocalTxn(m_cursor_list[c].txn)
CursorCallTxn(c) == CallTxn(m_cursor_list[c].txn)
\* cursor->set_txn(local_txn) after the begin of the temporary transaction
SetTxn(W, c, local_txn) ==
  IF local_txn # NoTxn THEN [W EXCEPT !.cur[c].txn = local_txn] ELSE W
\* the wrapper leaving the temporary transaction in the cursor
KeepTxn(r, c, local_txn) == r
\* if (cursor && local_txn) cursor->set_txn(0)
RestoreTxn(r, c, local_txn) ==
  IF local_txn # NoTxn THEN [r EXCEPT !.W.cur[c].txn = NoTxn] ELSE r
\* the call returns through finalize
CursorReturned(name, c, r) ==
  /\ m_txn_index' = r.W.idx
  /\ m_cursor_list' = r.W.cur
  /\ txns' = Finalized(Env(Begun(m_cursor_list[c].txn), {}, r.lsn), r.st,
                       CursorLocalTxn(c)).txns
  /\ lsn' = Finalized(Env(Begun(m_cursor_list[c].txn), {}, r.lsn), r.st,
                      CursorLocalTxn(c)).lsn
  /\ last' = Called(name, r.st)
  /\ UNCHANGED <<m_btree, m_config>>
CursorCallable(c) ==
  /\ c \in DOMAIN m_cursor_list
  /\ CanCall(m_cursor_list[c].txn)
  /\ lsn < MaxCursorLsn
\* cursor_insert -> insert_impl(cursor, cursor->get_txn(), key, record, flags)
EnvCursorInsert(c, k, rec, flags) ==
  /\ CursorCallable(c)
  /\ CursorReturned("cursor_insert", c,
       InsertReturned(m_btree, c,
         RestoreTxn(insert_txn(SetTxn(TheWorld, c, CursorLocalTxn(c)), m_btree, lsn,
                               CursorCallTxn(c), k, rec, flags, c),
                    c, CursorLocalTxn(c))))
\* cursor_find -> find_impl(cursor, cursor->get_txn(), key, record, flags)
EnvCursorFind(c, k, flags) ==
  /\ CursorCallable(c)
  /\ CursorReturned("cursor_find", c,
       [lsn |-> lsn] @@
       CursorFindFound(m_btree, c,
         RestoreTxn(find_txn(set_to_nil_both(
                               [SetTxn(TheWorld, c, CursorLocalTxn(c))
                                  EXCEPT !.cur[c].dupecache_index = 0], c),
                             m_btree, c, CursorCallTxn(c), k, flags, 0),
                    c, CursorLocalTxn(c))))
\* cursor_erase -> erase_impl(cursor, cursor->get_txn(), key, flags); a nil
\* cursor is refused before erase_impl is entered
EnvCursorErase(c) ==
  /\ CursorCallable(c)
  /\ IF is_nil(TheWorld, c)
       THEN /\ last' = Called("cursor_erase", HAM_CURSOR_IS_NIL)
            /\ UNCHANGED <<txns, m_txn_index, m_btree, m_cursor_list, lsn, m_config>>
       ELSE CursorReturned("cursor_erase", c,
              RestoreTxn(erase_impl(SetTxn(TheWorld, c, CursorLocalTxn(c)), m_btree, lsn,
                                    c, CursorCallTxn(c), NoKey),
                         c, CursorLocalTxn(c)))
\* Cursor::overwrite(txn, record, flags): an overwriting insert of the key the
\* cursor is on, which leaves the cursor coupled to the new op
Overwritten(c, r) == IF r.st = HAM_SUCCESS THEN [r EXCEPT !.W = couple_to_txnop(@, c)] ELSE r
CursorOverwrite(W, l, c, txn, rec) ==
  IF is_nil(W, c)
    THEN [st |-> HAM_CURSOR_IS_NIL, lsn |-> l, journal |-> <<>>, W |-> W]
    ELSE Overwritten(c, insert_txn(W, m_btree, l, txn,
                                   IF W.cur[c].coupled_to_txnop
                                     THEN get_coupled_op(W.idx, c)[1] ELSE W.cur[c].btree,
                                   rec, {HAM_OVERWRITE}, c))
\* LocalDatabase::cursor_overwrite(cursor, record, flags)
EnvCursorOverwrite(c, rec) ==
  /\ CursorCallable(c)
  /\ CursorReturned("cursor_overwrite", c,
       RestoreTxn(CursorOverwrite(SetTxn(TheWorld, c, CursorLocalTxn(c)), lsn, c,
                                  CursorCallTxn(c), rec),
                  c, CursorLocalTxn(c)))

\* two cursors, the first without a transaction and the second in the
\* caller's transaction 1; the wrappers begin the transactions 2 and 3
InitTemp ==
  /\ txns = [t \in ConflictTxns |-> IF t = 1 THEN "active" ELSE "unused"]
  /\ m_txn_index = <<>>
  /\ m_btree \in InitialBtrees
  /\ m_cursor_list = <<NewCursor(NoTxn), NewCursor(1)>>
  /\ lsn = 0
  /\ last = NoCall
  /\ m_config = TxnConfig
NextTemp ==
  \/ \E c \in Cursors, k \in Keys, flags \in TxnInsertFlags :
       EnvCursorInsert(c, k, lsn + 1, flags)
  \/ \E c \in Cursors, k \in Keys, flags \in CursorFindFlags : EnvCursorFind(c, k, flags)
  \/ \E c \in Cursors : EnvCursorErase(c)
  \/ \E c \in Cursors : EnvCursorOverwrite(c, lsn + 1)
  \/ Flush
SpecTemp == InitTemp /\ [][NextTemp]_vars

\* ------------------------------------------------------------------- scan
\* the B-tree as leaf pages: the keys in ascending order, LeafSize to a page
BtreeKeys == {k \in DOMAIN m_btree : m_btree[k] # <<>>}
NoPage == 0
PageOf(k) == (Cardinality({j \in BtreeKeys : j < k}) \div LeafSize) + 1
PageKeys(page) == {k \in BtreeKeys : PageOf(k) = page}
RECURSIVE Ascending(_)
Ascending(S) == IF S = {} THEN <<>> ELSE <<Min(S)>> \o Ascending(S \ {Min(S)})
MinOrNoKey(S) == IF S = {} THEN NoKey ELSE Min(S)

\* the overlay as transaction txn sees it: the nodes with an op it sees, the
\* newest of which inserts or erases the key
TopOp(txn, k) == TopInNode(txn, m_txn_index[k], Len(m_txn_index[k]))
TxnNodes(txn) == {k \in DOMAIN m_txn_index : TopOp(txn, k) # 0}
TxnInserted(txn) ==
  {k \in TxnNodes(txn) : m_txn_index[k][TopOp(txn, k)].flags \in InsertKinds}
ScanVisible(txn) == TxnInserted(txn) \cup (BtreeKeys \ TxnNodes(txn))

\* the cursor of the scan on key k: its B-tree cursor and its txn cursor stand
\* on the first key of their side that is not below k, and the cursor is
\* coupled to the B-tree when the overlay has no node for k
ScanCursorAt(txn, k) ==
  [btree |-> MinOrNoKey({b \in BtreeKeys : b >= k}),
   txn |-> MinOrNoKey({n \in TxnNodes(txn) : n >= k}),
   on_btree |-> k \notin TxnNodes(txn)]
ScanAt(txn, k, visited) ==
  [st |-> HAM_SUCCESS, key |-> k, C |-> ScanCursorAt(txn, k), visited |-> visited]
\* cursor_move(cursor, &key, 0, HAM_CURSOR_FIRST)
ScanMoveFirst(txn) ==
  IF ScanVisible(txn) = {}
    THEN [st |-> HAM_KEY_NOT_FOUND, key |-> NoKey, C |-> ScanCursorAt(txn, NoKey),
          visited |-> <<>>]
    ELSE ScanAt(txn, Min(ScanVisible(txn)), <<>>)
\* cursor_move(cursor, &key, 0, HAM_CURSOR_NEXT): the next key after the one
\* the cursor stands on
ScanPosition(S) == IF S.C.on_btree THEN S.C.btree ELSE S.key
ScanMoveTo(txn, S, later) ==
  IF later = {} THEN [S EXCEPT !.st = HAM_KEY_NOT_FOUND]
  ELSE ScanAt(txn, Min(later), S.visited)
ScanMoveNext(txn, S) ==
  ScanMoveTo(txn, S, {k \in ScanVisible(txn) : k > ScanPosition(S)})
\* (*visitor)(key.data, key.size, ...)
Visit(S) == [S EXCEPT !.visited = Append(@, S.key)]
\* node->scan(visitor, slot, distinct): the keys of the page from the slot on
NodeScan(S, page) ==
  [S EXCEPT !.visited = @ \o Ascending({k \in PageKeys(page) : k >= S.C.btree})]
\* BtreeCursor::move_to_next_page: the first key of the next page, or the last
\* key of the last page
HasNextPage(page) == PageKeys(page + 1) # {}
MoveToNextPage(S, page) ==
  [S EXCEPT !.C.btree = IF HasNextPage(page) THEN Min(PageKeys(page + 1))
                        ELSE Max(PageKeys(page))]

\* scan, "only transaction keys": visit, then move, while the move succeeds
RECURSIVE ScanRegular(_, _)
ScanRegularMoved(txn, N) == IF N.st = HAM_SUCCESS THEN ScanRegular(txn, N) ELSE N
ScanRegular(txn, S) == ScanRegularMoved(txn, ScanMoveNext(txn, Visit(S)))
\* scan, "pick up the remaining transactional keys"
RECURSIVE ScanRemaining(_, _)
ScanRemainingMoved(txn, N) == IF N.st = HAM_SUCCESS THEN ScanRemaining(txn, Visit(N)) ELSE N
ScanRemaining(txn, S) == ScanRemainingMoved(txn, ScanMoveNext(txn, S))
\* scan, the mixed load: page by page
RECURSIVE ScanMixed(_, _)
RECURSIVE ScanPage(_, _, _)
ScanPageMoved(txn, N, page) == IF N.st = HAM_SUCCESS THEN ScanPage(txn, N, page) ELSE N
\* the traversal of one page with the cursor, left when the B-tree cursor
\* has reached another page
ScanPage(txn, S, page) ==
  IF S.C.on_btree /\ PageOf(S.C.btree) # page THEN ScanMixed(txn, S)
  ELSE ScanPageMoved(txn, ScanMoveNext(txn, Visit(S)), page)
TxnKeyInPage(S, page) ==
  S.C.txn >= Min(PageKeys(page)) /\ S.C.txn <= Max(PageKeys(page))
ScanDelegated(txn, S, page) ==
  IF HasNextPage(page) THEN ScanMixed(txn, MoveToNextPage(S, page))
  ELSE ScanRemaining(txn, MoveToNextPage(S, page))
ScanMixedPage(txn, S, page) ==
  IF S.C.txn = NoKey THEN ScanRemaining(txn, Visit(S))
  ELSE IF TxnKeyInPage(S, page) THEN ScanPage(txn, S, page)
  ELSE ScanDelegated(txn, NodeScan(S, page), page)
ScanMixed(txn, S) ==
  IF ~S.C.on_btree THEN ScanRemaining(txn, S)
  ELSE ScanMixedPage(txn, S, PageOf(S.C.btree))
\* LocalDatabase::scan(txn, visitor, distinct) with transactions enabled: the
\* status (that of the first move when it fails) and the keys handed to the
\* visitor, in the order of the calls
ScanFrom(txn, S) ==
  IF S.st # HAM_SUCCESS THEN S
  ELSE IF ~S.C.on_btree THEN [ScanRegular(txn, S) EXCEPT !.st = HAM_SUCCESS]
  ELSE [ScanMixed(txn, S) EXCEPT !.st = HAM_SUCCESS]
scan(txn) == ScanFrom(txn, ScanMoveFirst(txn))
Scan(t) ==
  /\ is_active(t)
  /\ last' = [op |-> "scan", st |-> scan(t).st, visited |-> scan(t).visited]
  /\ UNCHANGED <<txns, m_txn_index, m_btree, m_cursor_list, lsn, m_config>>

\* one transaction writing five keys without a cursor and scanning the
\* database, whose B-tree has up to three leaves
ScanKeys == 1..MaxScanKey
InitScan ==
  /\ txns = [t \in Txns |-> IF t = 1 THEN "active" ELSE "unused"]
  /\ m_txn_index = <<>>
  /\ m_btree \in [ScanKeys -> {<<>>, <<OldRec>>}]
  /\ m_cursor_list = <<>>
  /\ lsn = 0
  /\ last = NoCall
  /\ m_config = TxnConfig
NextScan ==
  \/ lsn < MaxCursorLsn /\ \E k \in ScanKeys, flags \in FindInsertFlags :
       Insert(1, k, lsn + 1, flags)
  \/ lsn < MaxCursorLsn /\ \E k \in ScanKeys : Erase(1, k)
  \/ Scan(1)
SpecScan == InitScan /\ [][NextScan]_vars

\* ----------------------------------------------------------------- create
HAM_KEY_SIZE_UNLIMITED == 65535
\* (uint32_t)-1, which no record size below equals
HAM_RECORD_SIZE_UNLIMITED == -1
HAM_FORCE_RECORDS_INLINE == "FORCE_RECORDS_INLINE"
kInlineRecordThreshold == 32
MinKeysPerPage == 10
MinInlinePerPage == 500
KeyTypes == {"BINARY", "UINT8", "UINT16", "UINT32", "UINT64", "REAL32", "REAL64"}
\* the switch over m_config.key_type
TypedKeySize(key_type, key_size) ==
  CASE key_type = "UINT8" -> 1
    [] key_type = "UINT16" -> 2
    [] key_type \in {"REAL32", "UINT32"} -> 4
    [] key_type \in {"REAL64", "UINT64"} -> 8
    [] OTHER -> key_size
\* "if we cannot fit at least 10 keys in a page then refuse to continue"
KeySizeRefused(page_size, key_size) ==
  /\ key_size # HAM_KEY_SIZE_UNLIMITED
  /\ page_size \div (key_size + 8) < MinKeysPerPage
\* the sum of a uint16_t and a uint32_t, which does not wrap for a fixed
\* record size of at most MaxRecordSize
PairSize(key_size, record_size) == key_size + record_size
\* the records are stored in the leaf
RecordsInline(page_size, key_size, record_size) ==
  /\ record_size # HAM_RECORD_SIZE_UNLIMITED
  /\ \/ record_size <= 8
     \/ /\ record_size <= kInlineRecordThreshold
        /\ page_size \div PairSize(key_size, record_size) > MinInlinePerPage
CreateFlags(cfg, key_size) ==
  IF RecordsInline(cfg.page_size, key_size, cfg.record_size)
    THEN cfg.flags \cup {HAM_FORCE_RECORDS_INLINE} ELSE cfg.flags
\* LocalDatabase::create: the status and the configuration it leaves
CreateSized(cfg, key_size) ==
  IF KeySizeRefused(cfg.page_size, key_size)
    THEN [st |-> HAM_INV_KEY_SIZE, cfg |-> [cfg EXCEPT !.key_size = key_size]]
    ELSE [st |-> HAM_SUCCESS,
          cfg |-> [cfg EXCEPT !.key_size = key_size,
                              !.flags = CreateFlags(cfg, key_size)]]
create(cfg) == CreateSized(cfg, TypedKeySize(cfg.key_type, cfg.key_size))
\* the flags handed to the BtreeIndex: the run-time flags are stripped
PersistentFlags(flags) == flags \ {HAM_ENABLE_RECOVERY, HAM_ENABLE_TRANSACTIONS}
Create ==
  /\ last = NoCall
  /\ m_config' = create(m_config).cfg
  /\ last' = [op |-> "create", st |-> create(m_config).st,
              persistent_flags |-> PersistentFlags(create(m_config).cfg.flags)]
  /\ UNCHANGED <<txns, m_txn_index, m_btree, m_cursor_list, lsn>>

\* a database about to be created, for each page size, key type, key size
\* and record size
PageSizes == {1024 * 4^i : i \in 0..MaxPageShift}
KeySizes == (1..MaxKeySize) \cup {HAM_KEY_SIZE_UNLIMITED}
RecordSizes == (0..MaxRecordSize) \cup {HAM_RECORD_SIZE_UNLIMITED}
InitCreate ==
  /\ txns = [t \in Txns |-> "unused"]
  /\ m_txn_index = <<>>
  /\ m_btree = <<>>
  /\ m_cursor_list = <<>>
  /\ lsn = 0
  /\ last = NoCall
  /\ m_config \in [flags : {{HAM_ENABLE_TRANSACTIONS}}, recno : {0},
                   key_type : KeyTypes, key_size : KeySizes,
                   record_size : RecordSizes, page_size : PageSizes]
NextCreate == Create
SpecCreate == InitCreate /\ [][NextCreate]_vars

\* ------------------------------------------------------------ cursor_move
\* the keys the cursor's transaction sees in the overlay idx over the B-tree bt
TopOpIn(idx, txn, k) == TopInNode(txn, idx[k], Len(idx[k]))
NodesIn(idx, txn) == {k \in DOMAIN idx : TopOpIn(idx, txn, k) # 0}
InsertedIn(idx, txn) ==
  {k \in NodesIn(idx, txn) : idx[k][TopOpIn(idx, txn, k)].flags \in InsertKinds}
KeysOf(bt) == {k \in DOMAIN bt : bt[k] # <<>>}
VisibleIn(idx, bt, txn) == InsertedIn(idx, txn) \cup (KeysOf(bt) \ NodesIn(idx, txn))
ErasedIn(idx, bt, txn) == (KeysOf(bt) \cup NodesIn(idx, txn)) \ VisibleIn(idx, bt, txn)
\* the key the cursor stands on
CursorKeyIn(W, c) ==
  IF W.cur[c].coupled_to_txnop THEN get_coupled_op(W.idx, c)[1] ELSE W.cur[c].btree
\* the keys of S in the direction of the move, and the one the move reaches
Towards(S, pos, flags) ==
  IF HAM_CURSOR_FIRST \in flags \/ HAM_CURSOR_LAST \in flags THEN S
  ELSE IF HAM_CURSOR_NEXT \in flags THEN {k \in S : k > pos}
  ELSE IF HAM_CURSOR_PREVIOUS \in flags THEN {k \in S : k < pos}
  ELSE {k \in S : k = pos}
Reached(S, flags) ==
  IF HAM_CURSOR_FIRST \in flags \/ HAM_CURSOR_NEXT \in flags THEN Min(S) ELSE Max(S)
\* the cursor coupled to key k: to the op that inserts it, else to the B-tree
CoupledToKey(W, c, k, inserted) ==
  IF inserted
    THEN couple_to_txnop(set_to_nil_btree(
           couple_to_op(W, c, k, TopOpIn(W.idx, W.cur[c].txn, k)), c), c)
    ELSE [set_to_nil_txn(W, c) EXCEPT !.cur[c].btree = k]
\* Cursor::move(key, record, flags): to the key reached among the visible
\* ones; KeyErasedInTxn when the keys in the direction are all erased
CursorMoved(W, c, flags, visible, erased) ==
  IF visible # {}
    THEN [st |-> HAM_SUCCESS,
          W |-> CoupledToKey(W, c, Reached(visible, flags),
                             Reached(visible, flags) \in NodesIn(W.idx, W.cur[c].txn))]
  ELSE [st |-> IF erased # {} THEN HAM_KEY_ERASED_IN_TXN ELSE HAM_KEY_NOT_FOUND,
        W |-> W]
CursorMoveFrom(W, bt, c, flags, pos) ==
  CursorMoved(W, c, flags,
              Towards(VisibleIn(W.idx, bt, W.cur[c].txn), pos, flags),
              Towards(ErasedIn(W.idx, bt, W.cur[c].txn), pos, flags))
\* BtreeCursor::move(key, arena, record, arena, flags)
BtreeCursorMoved(W, c, flags, keys) ==
  IF keys # {} THEN [st |-> HAM_SUCCESS, W |-> [W EXCEPT !.cur[c].btree = Reached(keys, flags)]]
  ELSE [st |-> HAM_KEY_NOT_FOUND, W |-> W]
BtreeCursorMove(W, bt, c, flags) ==
  BtreeCursorMoved(W, c, flags, Towards(KeysOf(bt), W.cur[c].btree, flags))

\* Cursor::set_lastop: the memo, and the cursor is no longer unused
set_lastop(W, c, op) == [W EXCEPT !.cur[c].lastop = op, !.cur[c].first_use = FALSE]
\* cursor_move, the flags of a nil cursor as they are handed on
MoveFlagsAsGiven(W, c, flags) == flags
\* cursor_move, "if the cursor was never used before and the user requests a
\* NEXT then move the cursor to FIRST": the flags of a nil cursor
NilMoveFlags(first_use, flags) ==
  IF HAM_CURSOR_NEXT \in flags
    THEN (flags \ {HAM_CURSOR_NEXT})
           \cup {IF first_use THEN HAM_CURSOR_FIRST ELSE HAM_CURSOR_LAST}
  ELSE IF HAM_CURSOR_PREVIOUS \in flags
    THEN (flags \ {HAM_CURSOR_PREVIOUS})
           \cup {IF first_use THEN HAM_CURSOR_LAST ELSE HAM_CURSOR_FIRST}
  ELSE flags
MoveFlags(W, c, flags) ==
  IF is_nil(W, c) THEN NilMoveFlags(W.cur[c].first_use, flags) ELSE flags
\* cursor_move, "store the direction"
StoredDirection(flags) ==
  IF HAM_CURSOR_NEXT \in flags THEN HAM_CURSOR_NEXT
  ELSE IF HAM_CURSOR_PREVIOUS \in flags THEN HAM_CURSOR_PREVIOUS
  ELSE kNoLastOp
\* cursor_move after cursor->move: the direction is stored; a failure clears
\* it and KeyErasedInTxn becomes KeyNotFound
MoveStored(c, flags, r) ==
  IF r.st # HAM_SUCCESS
    THEN [st |-> IF r.st = HAM_KEY_ERASED_IN_TXN THEN HAM_KEY_NOT_FOUND ELSE r.st,
          W |-> set_lastop(set_lastop(r.W, c, StoredDirection(flags)), c, kNoLastOp)]
    ELSE [st |-> HAM_SUCCESS, W |-> set_lastop(r.W, c, StoredDirection(flags))]
CursorMoveWith(W, bt, c, flags, transactional) ==
  IF ~transactional THEN BtreeCursorMove(W, bt, c, flags)
  ELSE MoveStored(c, flags, CursorMoveFrom(W, bt, c, flags, CursorKeyIn(W, c)))
\* LocalDatabase::cursor_move(cursor, key, record, flags)
cursor_move(W, bt, c, flags, transactional) ==
  CursorMoveWith(W, bt, c, MoveFlags(W, c, flags), transactional)

\* the report of a cursor_move: the flags of the caller, the flags handed to
\* the move, and the cursor as it was before
MoveReturned(c, flags, r) ==
  /\ m_txn_index' = r.W.idx
  /\ m_cursor_list' = r.W.cur
  /\ last' = [op |-> "cursor_move", st |-> r.st, cursor |-> c, flags |-> flags,
              moved |-> MoveFlags(TheWorld, c, flags),
              was_nil |-> is_nil(TheWorld, c),
              first_use |-> m_cursor_list[c].first_use,
              lastop |-> m_cursor_list[c].lastop]
  /\ UNCHANGED <<txns, m_btree, lsn, m_config>>
CursorMove(c, flags) ==
  /\ c \in DOMAIN m_cursor_list
  /\ MoveReturned(c, flags, cursor_move(TheWorld, m_btree, c, flags, Transactional))
\* cursor_find as a step of the cursor's life: a find that succeeds stores
\* kLookupOrInsert with set_lastop
MoveFound(c, r) ==
  CursorFound(IF r.st = HAM_SUCCESS THEN [r EXCEPT !.W.cur[c].first_use = FALSE] ELSE r)
MoveCursorFind(c, k) ==
  /\ c \in DOMAIN m_cursor_list
  /\ is_active(m_cursor_list[c].txn)
  /\ MoveFound(c, cursor_find(TheWorld, m_btree, c, k, {}))

\* one cursor that was never used, on a database with transactions (the
\* cursor in transaction 1, which writes and erases) and on one without
MoveDirections ==
  {{HAM_CURSOR_FIRST}, {HAM_CURSOR_LAST}, {HAM_CURSOR_NEXT}, {HAM_CURSOR_PREVIOUS}}
NoTxnConfig == [flags |-> {}, recno |-> 0]
UnusedCursor(t) == NewCursor(t) @@ [first_use |-> TRUE]
InitMove ==
  /\ m_config \in {TxnConfig, NoTxnConfig}
  /\ txns = [t \in Txns |-> IF t = 1 /\ Transactional THEN "active" ELSE "unused"]
  /\ m_txn_index = <<>>
  /\ m_btree \in [Keys -> {<<>>, <<OldRec>>}]
  /\ m_cursor_list = <<UnusedCursor(IF Transactional THEN 1 ELSE NoTxn)>>
  /\ lsn = 0
  /\ last = NoCall
NextMove ==
  \/ \E flags \in MoveDirections : CursorMove(1, flags)
  \/ lsn < MaxCursorLsn /\ \E k \in Keys, flags \in FindInsertFlags :
       Insert(1, k, lsn + 1, flags)
  \/ lsn < MaxCursorLsn /\ \E k \in Keys : Erase(1, k)
  \/ lsn < MaxCursorLsn /\ Transactional /\ CursorErase(1)
  \/ Transactional /\ \E k \in Keys : MoveCursorFind(1, k)
SpecMove == InitMove /\ [][NextMove]_vars

\* ---------------------------------------------------------------- close
\* close_impl's test without the is_aborted half: an op of an aborted
\* transaction keeps the database open
ModifiedOrAborted(idx) ==
  \E x \in AllOps(idx) : ~is_committed(idx[x[1]][x[2]].txn)
\* close_impl, the walk over every op of every node: the database is modified
\* by a transaction that is still active
ModifiedByActive(idx) ==
  \E x \in AllOps(idx) :
    ~is_committed(idx[x[1]][x[2]].txn) /\ ~is_aborted(idx[x[1]][x[2]].txn)

\* TransactionManager::flush_committed_txns: every op of a committed
\* transaction is applied with flush_txn_operation, oldest first, and marked
RECURSIVE FlushCommitted(_, _, _)
FlushNext(r, x, n) ==
  FlushCommitted([r.W EXCEPT !.idx[x[1]][x[2]].flushed = TRUE], r.bt, n - 1)
FlushFirst(W, bt, x, n) == FlushNext(flush_txn_operation(W, bt, x[1], x[2]), x, n)
FlushCommitted(W, bt, n) ==
  IF n = 0 \/ Flushable(W.idx) = {} THEN [W |-> W, bt |-> bt]
  ELSE FlushFirst(W, bt, CHOOSE y \in Flushable(W.idx) : TRUE, n)

\* LocalDatabase::close_impl(flags): the status, the world and the B-tree
close_impl(W, bt) ==
  IF ModifiedByActive(W.idx) THEN [st |-> HAM_TXN_STILL_OPEN, W |-> W, bt |-> bt]
  ELSE [st |-> HAM_SUCCESS,
        W |-> FlushCommitted(W, bt, MaxLsn + 1).W,
        bt |-> FlushCommitted(W, bt, MaxLsn + 1).bt]

\* the database was closed
Closed == last = Called("close", HAM_SUCCESS)
CloseReturned(r) ==
  /\ m_txn_index' = r.W.idx
  /\ m_cursor_list' = r.W.cur
  /\ m_btree' = r.bt
  /\ last' = Called("close", r.st)
  /\ UNCHANGED <<txns, lsn, m_config>>
Close ==
  /\ ~Closed
  /\ CloseReturned(close_impl(TheWorld, m_btree))

\* transactions that write, commit, abort and are flushed, and the closing of
\* the database
InitClose == InitWith({}, Txns, Keys)
NextClose ==
  \/ ~Closed /\ \E t \in Txns : Commit(t)
  \/ ~Closed /\ \E t \in Txns : Abort(t)
  \/ ~Closed /\ \E t \in Txns, k \in Keys, flags \in TxnInsertFlags : Insert(t, k, lsn + 1, flags)
  \/ ~Closed /\ \E t \in Txns, k \in Keys : Erase(t, k)
  \/ ~Closed /\ Flush
  \/ Close
SpecClose == InitClose /\ [][NextClose]_vars

\* ------------------------------------------------------------------ claims
\* the position of the newest op of transaction t in the chain of key k (0 if
\* t has no op there)
OwnOps(t, k) ==
  IF HasNode(m_txn_index, k)
    THEN {i \in 1..Len(m_txn_index[k]) : m_txn_index[k][i].txn = t}
    ELSE {}
NewestOwn(t, k) == IF OwnOps(t, k) = {} THEN 0 ELSE Max(OwnOps(t, k))
\* the last op t issued on k is an insert that succeeded
LastWrote(t, k) ==
  /\ is_active(t)
  /\ NewestOwn(t, k) # 0
  /\ m_txn_index[k][NewestOwn(t, k)].flags \in InsertKinds
\* find_txn(t, k) with an exact match, called without a cursor
ExactFind(t, k) == find_txn(TheWorld, m_btree, NoCursor, t, k, {}, 0)

\* C1: read-your-writes.  In every reachable state, a transaction whose last
\* op on a key is a successful insert of record v finds exactly v with an
\* exact-match find_txn, whatever the B-tree holds for the key.
C1_ReadYourWrites ==
  \A t \in Txns, k \in Keys :
    LastWrote(t, k) =>
      /\ ExactFind(t, k).st = HAM_SUCCESS
      /\ ExactFind(t, k).record = m_txn_index[k][NewestOwn(t, k)].record

\* the key a cursor stands on, as erase_impl reads it
CursorKey(c) ==
  IF m_cursor_list[c].coupled_to_txnop THEN get_coupled_op(m_txn_index, c)[1]
  ELSE m_cursor_list[c].btree
\* a call came back with TxnConflict and left the op chains as they were
Refused(r) == r.st = HAM_TXN_CONFLICT /\ r.W.idx = m_txn_index
\* t1 is active with an op on k and t2, active too, has not touched k yet
SecondToTouch(t1, t2, k) ==
  /\ t1 # t2
  /\ is_active(t1) /\ is_active(t2)
  /\ OwnOps(t1, k) # {}
  /\ OwnOps(t2, k) = {}
IsolatedInsert(t2, k) ==
  \A flags \in TxnInsertFlags \cup CursorInsertFlags :
    Refused(insert_impl(TheWorld, m_btree, lsn, NoCursor, t2, k, lsn + 1, flags))
IsolatedErase(t2, k) == Refused(erase_impl(TheWorld, m_btree, lsn, NoCursor, t2, k))
IsolatedCursorErase(t2, k) ==
  \A c \in DOMAIN m_cursor_list :
    (m_cursor_list[c].txn = t2 /\ ~is_nil(TheWorld, c) /\ CursorKey(c) = k) =>
      Refused(erase_impl(TheWorld, m_btree, lsn, c, t2, NoKey))
IsolatedFind(t2, k) == ExactFind(t2, k).st = HAM_TXN_CONFLICT

\* C2: isolation.  While T1 is active and holds an op on the node of k, the
\* first insert, erase (without a cursor, or through a cursor standing on k,
\* on a duplicate or not) or find of k by another transaction T2 returns
\* TxnConflict and appends no op.
C2_Isolation ==
  \A t1 \in Txns, t2 \in Txns, k \in Keys :
    SecondToTouch(t1, t2, k) =>
      /\ IsolatedInsert(t2, k)
      /\ IsolatedErase(t2, k)
      /\ IsolatedCursorErase(t2, k)
      /\ IsolatedFind(t2, k)

\* the op chains with every op of transaction T deleted
WithoutTxn(T) ==
  [k \in DOMAIN m_txn_index |-> SelectSeq(m_txn_index[k], LAMBDA o : o.txn # T)]
WorldWithout(T) == World(WithoutTxn(T), m_cursor_list)
\* a caller other than T: a transaction that is active, or one begun for the
\* call (the temporary transaction of a caller without one)
OtherCaller(T, t) == t # T /\ txns[t] \in {"active", "unused"}
\* what find_txn hands back
Found(r) == <<r.st, r.key, r.record, r.approx>>
SameInsert(T, t, k) ==
  \A flags \in TxnInsertFlags :
    insert_impl(TheWorld, m_btree, lsn, NoCursor, t, k, lsn + 1, flags).st
      = insert_impl(WorldWithout(T), m_btree, lsn, NoCursor, t, k, lsn + 1, flags).st
SameErase(T, t, k) ==
  erase_impl(TheWorld, m_btree, lsn, NoCursor, t, k).st
    = erase_impl(WorldWithout(T), m_btree, lsn, NoCursor, t, k).st
SameFind(T, t, k) ==
  \A flags \in FindFlags :
    Found(find_txn(TheWorld, m_btree, NoCursor, t, k, flags, 0))
      = Found(find_txn(WorldWithout(T), m_btree, NoCursor, t, k, flags, 0))
AbortedUnseen ==
  \A T \in Txns, t \in Txns, k \in Keys :
    (is_aborted(T) /\ OtherCaller(T, t)) =>
      SameInsert(T, t, k) /\ SameErase(T, t, k) /\ SameFind(T, t, k)
AbortKeepsChains ==
  \A T \in Txns : (is_active(T) /\ is_aborted(T)') => m_txn_index' = m_txn_index

\* C3: abort invisibility.  Once T is aborted, insert, erase and find of every
\* key by every other caller return what they return on the same op chains
\* with T's ops deleted (so an insert that T made conflict succeeds), and the
\* abort step itself leaves every op chain as it was.
C3_AbortInvisibility == []AbortedUnseen /\ [][AbortKeepsChains]_vars
\* an insert succeeded on top of the insert of an aborted transaction
C3_Witness ==
  \E T \in Txns, k \in Keys :
    /\ is_aborted(T)
    /\ HasNode(m_txn_index, k)
    /\ Len(m_txn_index[k]) >= 2
    /\ m_txn_index[k][1].txn = T
    /\ m_txn_index[k][1].flags = kInsert
    /\ m_txn_index[k][2].txn # T
    /\ m_txn_index[k][2].flags = kInsert
    /\ last = Called("insert", HAM_SUCCESS)

\* the newest op of the chain of k that no aborted transaction made (0 if
\* there is none)
LiveOps(k) ==
  IF HasNode(m_txn_index, k)
    THEN {i \in 1..Len(m_txn_index[k]) : ~is_aborted(m_txn_index[k][i].txn)}
    ELSE {}
NewestLive(k) == IF LiveOps(k) = {} THEN 0 ELSE Max(LiveOps(k))
\* the newest live op on k is an insert of t1 that is not flushed
HoldsInsert(t1, k) ==
  /\ NewestLive(k) # 0
  /\ m_txn_index[k][NewestLive(k)].txn = t1
  /\ m_txn_index[k][NewestLive(k)].flags \in InsertKinds
  /\ ~m_txn_index[k][NewestLive(k)].flushed
\* t1 has an insert among its ops on k
HasInsert(t1, k) == \E i \in OwnOps(t1, k) : m_txn_index[k][i].flags \in InsertKinds
ConflictWhileActive(t1, t2, k) ==
  (is_active(t1) /\ HasInsert(t1, k)) =>
    /\ ExactFind(t2, k).st = HAM_TXN_CONFLICT
    /\ find(TheWorld, m_btree, t2, k, {}).st = HAM_TXN_CONFLICT
VisibleOnceCommitted(t1, t2, k) ==
  (is_committed(t1) /\ HoldsInsert(t1, k)) =>
    /\ ExactFind(t2, k).st = HAM_SUCCESS
    /\ ExactFind(t2, k).record = m_txn_index[k][NewestLive(k)].record
    /\ find(TheWorld, m_btree, t2, k, {}).st = HAM_SUCCESS
    /\ find(TheWorld, m_btree, t2, k, {}).record = m_txn_index[k][NewestLive(k)].record

\* C4: commit visibility before flush.  While T1 is active with an insert of
\* k, an exact find of k by another transaction T2 returns TxnConflict; once
\* T1 is committed and its insert, not yet flushed, is the newest live op on
\* k, the same find returns success with the record T1 wrote.
C4_CommitVisibility ==
  \A t1 \in Txns, t2 \in Txns, k \in Keys :
    OtherCaller(t1, t2) =>
      ConflictWhileActive(t1, t2, k) /\ VisibleOnceCommitted(t1, t2, k)

\* every op of T is flushed
AllFlushed(T) ==
  \A k \in Keys : \A i \in OwnOps(T, k) : m_txn_index[k][i].flushed
\* T is committed and flushed, and its last insert on k is the newest live op
\* of the key
Propagated(T, k) ==
  /\ is_committed(T)
  /\ AllFlushed(T)
  /\ NewestLive(k) # 0
  /\ m_txn_index[k][NewestLive(k)].txn = T
  /\ m_txn_index[k][NewestLive(k)].flags \in InsertKinds
\* the record an exact find of k by t returns, NoRec if it fails
FindsRecord(idx, bt, t, k) ==
  IF find(World(idx, m_cursor_list), bt, t, k, {}).st = HAM_SUCCESS
    THEN find(World(idx, m_cursor_list), bt, t, k, {}).record
    ELSE NoRec
InBtree(T, k) ==
  /\ BtreeFind(m_btree, k, {}).st = HAM_SUCCESS
  /\ \E p \in 1..Len(m_btree[k]) : m_btree[k][p] = m_txn_index[k][NewestLive(k)].record
FreshFinds(T, k) ==
  \A t \in Txns :
    OtherCaller(T, t) =>
      FindsRecord(m_txn_index, m_btree, t, k) = m_txn_index[k][NewestLive(k)].record

\* C5: commit propagation.  Once T is committed and every op of T is flushed,
\* T's last insert on k being the newest live op of the key, the B-tree holds
\* k with the record of that insert and an exact find of k by a fresh
\* transaction returns that record, as it did before the flush.
C5_CommitPropagation ==
  \A T \in Txns, k \in Keys : Propagated(T, k) => InBtree(T, k) /\ FreshFinds(T, k)

\* the ops of the chain of k that transaction t sees: not aborted, not
\* flushed, made by t itself or by a committed transaction
SeenOps(t, k) ==
  IF HasNode(m_txn_index, k)
    THEN {i \in 1..Len(m_txn_index[k]) :
            /\ ~is_aborted(m_txn_index[k][i].txn)
            /\ ~m_txn_index[k][i].flushed
            /\ (is_committed(m_txn_index[k][i].txn) \/ m_txn_index[k][i].txn = t)}
    ELSE {}
NewestSeen(t, k) == IF SeenOps(t, k) = {} THEN 0 ELSE Max(SeenOps(t, k))
\* the newest op t sees on k erased the whole key
ErasedFor(t, k) ==
  /\ NewestSeen(t, k) # 0
  /\ m_txn_index[k][NewestSeen(t, k)].flags = kErase
  /\ m_txn_index[k][NewestSeen(t, k)].referenced_dupe = 0
\* k is visible to t: inserted in the overlay and not erased by a newer op t
\* sees, or held by the B-tree and not erased in the overlay
VisibleTo(t, k) ==
  IF NewestSeen(t, k) # 0
    THEN m_txn_index[k][NewestSeen(t, k)].flags \in InsertKinds
    ELSE m_btree[k] # <<>>
VisibleKeys(t) == {k \in Keys : VisibleTo(t, k)}
\* no transaction but t is active with an op in the overlay
NoForeignOp(t) ==
  \A k \in Keys : \A i \in LiveOps(k) :
    m_txn_index[k][i].txn = t \/ ~is_active(m_txn_index[k][i].txn)
\* the closest key of S below or above k
ClosestLt(S, k) == Max({x \in S : x < k})
ClosestGt(S, k) == Min({x \in S : x > k})
FindKey(t, k, flags) == find_txn(TheWorld, m_btree, NoCursor, t, k, flags, 0)

\* the keys of S a find from k with these flags may return, and the closest
Candidates(S, k, flags) ==
  {x \in S : \/ (HAM_FIND_GT_MATCH \in flags /\ x > k)
             \/ (HAM_FIND_LT_MATCH \in flags /\ x < k)
             \/ (HAM_FIND_EXACT_MATCH \in flags /\ x = k)}
Closest(S, k, flags) ==
  IF k \in Candidates(S, k, flags) THEN k
  ELSE IF HAM_FIND_GT_MATCH \in flags THEN ClosestGt(S, k)
  ELSE ClosestLt(S, k)
ApproxFlags == FindFlags \ {{}}

\* C6: approximate-match preference.  A find with LtMatch or GtMatch that
\* succeeds returns the key closest to the requested key in the requested
\* direction among the keys visible to the transaction (with GtMatch the
\* smallest visible candidate, with LtMatch the largest).
C6_ApproximatePreference ==
  \A t \in Txns, k \in Keys, flags \in ApproxFlags :
    (is_active(t) /\ NoForeignOp(t) /\ FindKey(t, k, flags).st = HAM_SUCCESS) =>
      /\ Candidates(VisibleKeys(t), k, flags) # {}
      /\ FindKey(t, k, flags).key = Closest(VisibleKeys(t), k, flags)

\* C7: no erased key is returned.  Whenever find_txn returns success, with
\* any match flags, the key it returns is not one whose newest op visible to
\* the transaction is an Erase of the whole key.
C7_NoErasedKey ==
  \A t \in Txns, k \in Keys, flags \in FindFlags :
    (is_active(t) /\ FindKey(t, k, flags).st = HAM_SUCCESS) =>
      ~ErasedFor(t, FindKey(t, k, flags).key)

\* the two sides of a cursor: its BtreeCursor is positioned, its
\* TransactionCursor is attached to an op
BtreeSideLive(c) == m_cursor_list[c].btree # NoKey
TxnSideLive(c) == ~txn_is_nil(m_txn_index, c)
\* the cursor reports the coupling ToBtree
ReportsBtree(c) == ~m_cursor_list[c].coupled_to_txnop /\ BtreeSideLive(c)

\* C8: cursor coupling exclusivity.  In every state between public
\* operations no cursor has both a live B-tree side and a live txn side, and
\* a cursor that reports ToBtree is in no op's cursor list.
C8_CouplingExclusive ==
  \A c \in DOMAIN m_cursor_list :
    /\ ~(BtreeSideLive(c) /\ TxnSideLive(c))
    /\ ReportsBtree(c) => ~TxnSideLive(c)

\* the op appended by the step, as <<key, position in chain>>
NewOps == {x \in AllOps(m_txn_index') : m_txn_index'[x[1]][x[2]].lsn = lsn'}
\* the step is a cursor_insert of cursor c that appended a duplicate of k
DupInsertedBy(c, k) ==
  /\ last' = Called("cursor_insert", HAM_SUCCESS)
  /\ lsn' = lsn + 1
  /\ \E x \in NewOps :
       /\ x[1] = k
       /\ m_txn_index'[k][x[2]].flags = kInsertDuplicate
       /\ m_txn_index'[k][x[2]].cursor_list = <<c>>
\* cursor d stands on key k
CoupledTo(d, k) == ~is_nil(TheWorld, d) /\ CursorKey(d) = k
\* the index of d after a duplicate was put at position p of k
ShiftedIndex(d, k, p) ==
  IF CoupledTo(d, k) /\ m_cursor_list[d].dupecache_index > p
    THEN m_cursor_list[d].dupecache_index + 1
    ELSE m_cursor_list[d].dupecache_index
DupeIndexStep ==
  \A c \in DOMAIN m_cursor_list, k \in Keys :
    DupInsertedBy(c, k) =>
      \A d \in DOMAIN m_cursor_list \ {c} :
        m_cursor_list'[d].dupecache_index
          = ShiftedIndex(d, k, m_cursor_list'[c].dupecache_index)

\* C9: duplicate index monotonicity.  When an insert through cursor c puts a
\* duplicate at logical position p of key k (the index c ends on), every
\* other cursor coupled to k with dupecache_index > p has its index raised by
\* exactly one and every other cursor keeps its index.
C9_DupeIndexMonotone == [][DupeIndexStep]_vars

\* the step is an insert without a cursor that appended a duplicate of k
\* with Duplicate | DuplicateInsertFirst
DupInsertedFirst(k) ==
  /\ last' = Called("insert", HAM_SUCCESS)
  /\ lsn' = lsn + 1
  /\ \E x \in NewOps :
       /\ x[1] = k
       /\ m_txn_index'[k][x[2]].flags = kInsertDuplicate
       /\ HAM_DUPLICATE_INSERT_FIRST \in m_txn_index'[k][x[2]].orig_flags
SecondBecomesThird ==
  \A C \in DOMAIN m_cursor_list, k \in Keys :
    (DupInsertedFirst(k) /\ CoupledTo(C, k) /\ m_cursor_list[C].dupecache_index = 2) =>
      m_cursor_list'[C].dupecache_index = 3

\* C10: duplicate bookkeeping for an insert made without a cursor.  When
\* cursor C stands on duplicate 2 of key k and a transaction inserts a
\* duplicate of k with Duplicate | DuplicateInsertFirst through insert (no
\* cursor), C's dupecache_index is 3 after the op is appended.
C10_NonCursorDupeInsert == [][SecondBecomesThird]_vars

\* the LSNs of the ops of the index
LsnOf(x) == m_txn_index[x[1]][x[2]].lsn
\* no LSN is carried by two ops
LsnUnique ==
  \A x \in AllOps(m_txn_index), y \in AllOps(m_txn_index) : LsnOf(x) = LsnOf(y) => x = y
\* in every node the previous-in-node links lead to smaller LSNs
LsnDecreasingInNode ==
  \A k \in Keys :
    HasNode(m_txn_index, k) =>
      \A i \in 2..Len(m_txn_index[k]) : m_txn_index[k][i - 1].lsn < m_txn_index[k][i].lsn
\* an op appended by the step has an LSN above that of every op before it
LsnAboveEarlier ==
  \A x \in AllOps(m_txn_index') :
    x \notin AllOps(m_txn_index) =>
      \A y \in AllOps(m_txn_index) : LsnOf(y) < m_txn_index'[x[1]][x[2]].lsn

\* C11: LSN monotonicity and uniqueness.  Every appended op gets an LSN above
\* that of every op appended earlier, no two ops carry the same LSN, and in
\* each node the LSNs fall strictly from the newest op to the oldest.
C11_LsnMonotone ==
  /\ [](LsnUnique /\ LsnDecreasingInNode)
  /\ [][LsnAboveEarlier]_vars
\* three ops were appended, two of them to one node
C11_Witness ==
  /\ lsn = MaxLsn
  /\ \E k \in Keys : HasNode(m_txn_index, k) /\ Len(m_txn_index[k]) >= 2
  /\ \E x \in AllOps(m_txn_index), y \in AllOps(m_txn_index) : x[1] # y[1]

\* some op of the index belongs to a transaction that is still active
ActiveOp == \E x \in AllOps(m_txn_index) : is_active(m_txn_index[x[1]][x[2]].txn)
\* an op of a committed transaction waits for its flush
UnflushedIn(idx) ==
  \E x \in AllOps(idx) : is_committed(idx[x[1]][x[2]].txn) /\ ~idx[x[1]][x[2]].flushed
CloseStep ==
  last'.op = "close" =>
    IF ActiveOp
      THEN /\ last'.st = HAM_TXN_STILL_OPEN
           /\ UNCHANGED <<txns, m_txn_index, m_btree, m_cursor_list, lsn, m_config>>
      ELSE /\ last'.st = HAM_SUCCESS
           /\ ~UnflushedIn(m_txn_index')

\* C12: close safety.  close_impl returns TxnStillOpen exactly when some op
\* of some node belongs to a transaction that is neither committed nor
\* aborted, and then it flushes nothing and leaves the transaction index and
\* the B-tree as they were; otherwise it flushes the committed transactions
\* and closes.
C12_CloseSafety == [][CloseStep]_vars
\* close was refused while an op of a committed transaction waited for its
\* flush
C12_Witness ==
  /\ last = Called("close", HAM_TXN_STILL_OPEN)
  /\ ActiveOp
  /\ UnflushedIn(m_txn_index)

\* erase_txn as erase_impl calls it for cursor c (NoCursor: for key k)
EraseWorld(c) ==
  IF c # NoCursor /\ ~m_cursor_list[c].coupled_to_txnop
    THEN set_to_nil_txn(TheWorld, c) ELSE TheWorld
EraseKey(c, k) == IF c = NoCursor THEN k ELSE CursorKey(c)
EraseCall(t, c, k) == erase_txn(EraseWorld(c), m_btree, lsn, t, EraseKey(c, k), c)
\* a call erase_impl can make: without a cursor, or through a cursor of the
\* transaction that is not nil
CanErase(t, c, k) ==
  /\ is_active(t)
  /\ c # NoCursor =>
       /\ c \in DOMAIN m_cursor_list
       /\ m_cursor_list[c].txn = t
       /\ ~is_nil(TheWorld, c)
       /\ EraseKey(c, k) = k
\* the cursors other than c attached to an op of node n have a nil txn side
SiblingsNil(W, V, c, n) ==
  \A d \in DOMAIN W.cur \ {c} :
    (~txn_is_nil(W.idx, d) /\ get_coupled_op(W.idx, d)[1] = n) => txn_is_nil(V.idx, d)
\* the cursors other than c whose B-tree side pointed at n have it nil
BtreeSidesNil(W, V, c, n) ==
  \A d \in DOMAIN W.cur \ {c} : W.cur[d].btree = n => V.cur[d].btree = NoKey
\* the coupling of cursor c is the same in W and V
SameCoupling(W, V, c) ==
  c # NoCursor =>
    /\ V.cur[c] = W.cur[c]
    /\ get_coupled_op(V.idx, c) = get_coupled_op(W.idx, c)
WholeKeyErased(t, c, k) ==
  (CanErase(t, c, k) /\ DupeIndexOf(TheWorld, c) = 0
     /\ EraseCall(t, c, k).st = HAM_SUCCESS) =>
    /\ SiblingsNil(EraseWorld(c), EraseCall(t, c, k).W, c, k)
    /\ BtreeSidesNil(EraseWorld(c), EraseCall(t, c, k).W, c, k)
    /\ SameCoupling(EraseWorld(c), EraseCall(t, c, k).W, c)

\* C17: erase nils sibling cursors.  When erase_txn appends a whole-key Erase
\* on node n (no cursor, or a cursor without a duplicate index), every other
\* cursor that was attached to an op of n has a nil txn side, every other
\* cursor whose B-tree side pointed at n's key has a nil B-tree side, and the
\* coupling of the initiating cursor is as it was.
C17_EraseNilsSiblings ==
  \A t \in Txns, k \in Keys, c \in {NoCursor} \cup DOMAIN m_cursor_list :
    WholeKeyErased(t, c, k)

\* the insert ops that flush_committed_txns hands to flush_txn_operation next
FlushableInserts ==
  {x \in Flushable(m_txn_index) : m_txn_index[x[1]][x[2]].flags \in InsertKinds}
FlushCall(x) == flush_txn_operation(TheWorld, m_btree, x[1], x[2])
AttachedTo(x) == m_txn_index[x[1]][x[2]].cursor_list
\* cursor c is coupled to the B-tree at key k and has a nil txn side
OnBtreeAt(W, c, k) ==
  W.cur[c].btree = k /\ ~W.cur[c].coupled_to_txnop /\ txn_is_nil(W.idx, c)
AttachedCoupled(x, r) ==
  /\ \A j \in 1..Len(AttachedTo(x)) : OnBtreeAt(r.W, AttachedTo(x)[j], x[1])
  /\ r.W.idx[x[1]][x[2]].cursor_list = <<>>
LookupFindsRecord(x, r) ==
  /\ BtreeFind(r.bt, x[1], {}).st = HAM_SUCCESS
  /\ BtreeFind(r.bt, x[1], {}).record = m_txn_index[x[1]][x[2]].record
\* the statuses of a B-tree insert that fails
BtreeInsertErrors == {HAM_DUPLICATE_KEY}
FailedFlush(x, e) ==
  FlushInserted(TheWorld, x[1], x[2], AttachedTo(x), [st |-> e, bt |-> m_btree])
StaysAttached(x, e) ==
  FailedFlush(x, e).st = e /\ FailedFlush(x, e).W = TheWorld
FlushCouples(x) ==
  /\ FlushCall(x).st = HAM_SUCCESS =>
       AttachedCoupled(x, FlushCall(x)) /\ LookupFindsRecord(x, FlushCall(x))
  /\ \A e \in BtreeInsertErrors : StaysAttached(x, e)

\* C13: flush couples cursors.  After flush_txn_operation succeeds on an
\* Insert, InsertOverwrite or InsertDuplicate op, every cursor that was
\* attached to the op is coupled to the B-tree at the op's key with a nil txn
\* side, the op's cursor list is empty and a B-tree lookup of the key finds
\* the op's record; when the B-tree insert fails the cursors stay attached.
C13_FlushCouples == \A x \in FlushableInserts : FlushCouples(x)

\* the lookup finds the key, with the record of an Insert or InsertOverwrite
\* op; the record of an InsertDuplicate op is one of the key's duplicates
LookupFindsDuplicate(x, r) ==
  /\ BtreeFind(r.bt, x[1], {}).st = HAM_SUCCESS
  /\ m_txn_index[x[1]][x[2]].flags # kInsertDuplicate =>
       BtreeFind(r.bt, x[1], {}).record = m_txn_index[x[1]][x[2]].record
  /\ \E j \in 1..Len(r.bt[x[1]]) : r.bt[x[1]][j] = m_txn_index[x[1]][x[2]].record
FlushCouplesDuplicate(x) ==
  /\ FlushCall(x).st = HAM_SUCCESS =>
       AttachedCoupled(x, FlushCall(x)) /\ LookupFindsDuplicate(x, FlushCall(x))
  /\ \A e \in BtreeInsertErrors : StaysAttached(x, e)
\* C13 as amended: flush couples cursors, and the record of a flushed
\* InsertDuplicate op is one of the duplicates of its key, not necessarily the
\* one a lookup returns.
C13_FlushCouplesDuplicate == \A x \in FlushableInserts : FlushCouplesDuplicate(x)
\* a flush has just moved two cursors from a duplicate insert to the B-tree,
\* where the key's first duplicate is another record
FlushedDuplicate(k, i) ==
  /\ i <= Len(m_txn_index[k])
  /\ m_txn_index[k][i].flushed
  /\ m_txn_index[k][i].flags = kInsertDuplicate
  /\ m_txn_index[k][i].cursor_list = <<>>
  /\ Len(m_btree[k]) >= 2
  /\ m_btree[k][1] # m_txn_index[k][i].record
  /\ m_btree[k][Len(m_btree[k])] = m_txn_index[k][i].record
  /\ \A c \in DOMAIN m_cursor_list : OnBtreeAt(TheWorld, c, k)
C13_Witness ==
  /\ last = Called("flush", HAM_SUCCESS)
  /\ Cardinality(DOMAIN m_cursor_list) >= 2
  /\ \E k \in DOMAIN m_txn_index, i \in 1..MaxLsn + 1 : FlushedDuplicate(k, i)

\* the calls of insert on a record-number database
Callers == {NoTxn} \cup Txns
RecnoInsert(h, k, flags) == RecordNumber /\ EnvInsert(h, k, lsn + 1, flags)
\* the record the insert wrote is what a lookup of key k gives: it is the
\* newest op of the node of k, or the record of k in the B-tree
NewestRecord(idx, k) == idx[k][Len(idx[k])].record
WrittenUnder(k, rec) ==
  last'.st = HAM_SUCCESS =>
    IF Transactional THEN NewestRecord(m_txn_index', k) = rec
    ELSE m_btree'[k] # <<>> /\ m_btree'[k][1] = rec
\* the keys the counter has given out so far, as far as the inserts are
\* still in the transaction index: the ops of an insert without Overwrite
ByCounter(op) == op.flags = kInsert /\ HAM_OVERWRITE \notin op.orig_flags
AssignedKeys ==
  {k \in DOMAIN m_txn_index : \E i \in 1..Len(m_txn_index[k]) : ByCounter(m_txn_index[k][i])}
RecnoAssigned(h, k) ==
  RecnoInsert(h, k, {}) =>
    /\ last'.key = m_config.recno + 1
    /\ m_config'.recno = last'.key
    /\ \A a \in AssignedKeys : a < last'.key
    /\ WrittenUnder(last'.key, lsn + 1)
RecnoOverwritten(h, k) ==
  RecnoInsert(h, k, {HAM_OVERWRITE}) =>
    /\ last'.key = k
    /\ m_config'.recno = m_config.recno
    /\ WrittenUnder(k, lsn + 1)
RecnoStep ==
  \A h \in Callers, k \in {NoKey} \cup Keys : RecnoAssigned(h, k) /\ RecnoOverwritten(h, k)

\* C14: record-number auto-increment.  On a record-number database an insert
\* with an empty key and without Overwrite is given the key counter + 1, which
\* becomes the counter and is above every key given out before (1, 2, ... on
\* an empty database); an insert with Overwrite writes under the caller's key
\* and leaves the counter as it is.
C14_RecnoAutoIncrement == [][RecnoStep]_vars
\* two inserts with an empty key were given the keys 1 and 2
C14_Witness ==
  /\ RecordNumber
  /\ Transactional
  /\ m_config.recno = 2
  /\ last.op = "insert" /\ last.st = HAM_SUCCESS /\ last.key = 2
  /\ AssignedKeys = {1, 2}

\* a wrapper is called without a transaction of the caller
TempCall ==
  \/ \E k \in {NoKey} \cup Keys, flags \in EnvInsertFlags : EnvInsert(NoTxn, k, lsn + 1, flags)
  \/ \E k \in Keys : EnvErase(NoTxn, k)
  \/ \E k \in Keys, flags \in CursorFindFlags : EnvFind(NoTxn, k, flags)
\* transaction t is the one the call began, and it ended with the call
BegunAndEnded(t) ==
  /\ txns[t] = "unused"
  /\ txns'[t] = IF last'.st = HAM_SUCCESS THEN "committed" ELSE "aborted"
  /\ \A u \in Txns \ {t} : txns'[u] = txns[u]
TempLifecycle == (Transactional /\ TempCall) => \E t \in Txns : BegunAndEnded(t)

WrapperReturned == last.op \in {"insert", "find", "erase"} /\ "changeset" \in DOMAIN last

\* C16: changeset discipline.  When insert, find or erase returns, on success
\* or failure, with or without a temporary transaction, with recovery on or
\* off, the changeset of the environment is empty.
C16_ChangesetEmpty == WrapperReturned => last.changeset = {}

\* the transactions that can make a call: the active ones, and the temporary
\* transaction a wrapper would begin
EligibleCallers ==
  {t \in DOMAIN txns : is_active(t)}
    \cup (IF \E t \in DOMAIN txns : txns[t] = "unused" THEN {NextTxnId} ELSE {})
\* the index with the node of k, created as insert_txn and erase_txn do
WithNode(k) == IF HasNode(m_txn_index, k) THEN m_txn_index ELSE StoreNode(m_txn_index, k)
\* the ops of a chain that decide: not aborted, not flushed (every op of a
\* chain is an Insert, InsertOverwrite, InsertDuplicate or Erase)
Decides(op) == ~is_aborted(op.txn) /\ ~op.flushed
DecidingOps(chain) == {i \in 1..Len(chain) : Decides(chain[i])}
FirstDeciding(chain) == chain[Max(DecidingOps(chain))]
ForeignActive(txn, op) == op.txn # txn /\ is_active(op.txn)
Lenient(flags) == HAM_OVERWRITE \in flags \/ HAM_DUPLICATE \in flags
InsertOpVerdict(txn, op, flags) ==
  IF ForeignActive(txn, op) THEN HAM_TXN_CONFLICT
  ELSE IF op.flags = kErase THEN HAM_SUCCESS
  ELSE IF Lenient(flags) THEN HAM_SUCCESS
  ELSE HAM_DUPLICATE_KEY
InsertBtreeVerdict(k, flags) ==
  IF Lenient(flags) \/ RecordNumber THEN HAM_SUCCESS
  ELSE IF m_btree[k] # <<>> THEN HAM_DUPLICATE_KEY
  ELSE HAM_SUCCESS
InsertVerdict(txn, k, flags) ==
  IF DecidingOps(ChainOf(k)) # {}
    THEN InsertOpVerdict(txn, FirstDeciding(ChainOf(k)), flags)
    ELSE InsertBtreeVerdict(k, flags)

EraseOpVerdict(txn, op) ==
  IF ForeignActive(txn, op) THEN HAM_TXN_CONFLICT
  ELSE IF op.flags = kErase THEN HAM_KEY_NOT_FOUND
  ELSE HAM_SUCCESS
EraseVerdict(txn, k) ==
  IF DecidingOps(ChainOf(k)) # {}
    THEN EraseOpVerdict(txn, FirstDeciding(ChainOf(k)))
    ELSE IF m_btree[k] # <<>> THEN HAM_SUCCESS ELSE HAM_KEY_NOT_FOUND

\* C19: erase conflict check.  check_erase_conflicts returns the verdict of
\* the newest op that is neither aborted nor flushed: TxnConflict for an op of
\* another active transaction, KeyNotFound for an Erase, success for an
\* Insert*; when no op decides, the result is that of the B-tree's find.
C19_EraseConflictCheck ==
  \A t \in EligibleCallers, k \in Keys :
    check_erase_conflicts(t, WithNode(k), m_btree, k) = EraseVerdict(t, k)
\* an erase was refused with KeyNotFound by the Erase op of a committed
\* transaction, while the B-tree still holds the key
C19_Witness ==
  /\ last.op = "erase"
  /\ last.st = HAM_KEY_NOT_FOUND
  /\ m_btree[last.key] # <<>>
  /\ DecidingOps(ChainOf(last.key)) # {}
  /\ FirstDeciding(ChainOf(last.key)).flags = kErase
  /\ is_committed(FirstDeciding(ChainOf(last.key)).txn)

\* the overlay writes a call can make: insert_txn as insert_impl calls it for
\* transaction t (cursor c or none), erase_txn as erase_impl calls it
WriteCursors(t) ==
  {NoCursor} \cup {c \in DOMAIN m_cursor_list : m_cursor_list[c].txn = t}
WriteFlags == TxnInsertFlags \cup CursorInsertFlags
InsertWrite(t, c, k, flags) ==
  insert_txn(TheWorld, m_btree, lsn, t, k, lsn + 1, flags, c)
\* a failed write r left the world W as it was: the nodes and op chains with
\* their cursor lists, the cursors, the LSN counter; nothing was journaled
LeftAsWas(r, W) ==
  r.st # HAM_SUCCESS => (r.W = W /\ r.lsn = lsn /\ r.journal = <<>>)
FailedInsertKeeps(t, c, k, flags) == LeftAsWas(InsertWrite(t, c, k, flags), TheWorld)
FailedEraseKeeps(t, c, k) ==
  CanErase(t, c, k) => LeftAsWas(EraseCall(t, c, k), EraseWorld(c))

CursorFindTxn(c, k, flags) ==
  find_txn(set_to_nil_both([TheWorld EXCEPT !.cur[c].dupecache_index = 0], c),
           m_btree, c, m_cursor_list[c].txn, k, flags, 0)
FindTxnCall(c, t, k, flags) ==
  IF c = NoCursor THEN find_txn(TheWorld, m_btree, NoCursor, t, k, flags, 0)
  ELSE CursorFindTxn(c, k, flags)
\* the callers of find_txn: a cursor with its transaction, or no cursor
FindCallers ==
  {x \in (DOMAIN m_cursor_list \cup {NoCursor}) \X Txns :
     /\ is_active(x[2])
     /\ x[1] # NoCursor => m_cursor_list[x[1]].txn = x[2]}
\* the walk of find_txn for t over the chain of k stops at an Erase: the
\* newest op t sees is an Erase and no op above it belongs to an active
\* transaction
StopsAtErase(t, k) ==
  /\ NewestSeen(t, k) # 0
  /\ m_txn_index[k][NewestSeen(t, k)].flags = kErase
  /\ \A j \in NewestSeen(t, k) + 1..Len(m_txn_index[k]) : ~is_active(m_txn_index[k][j].txn)
ErasedDupe(t, k) == m_txn_index[k][NewestSeen(t, k)].referenced_dupe
OnOp(W, c, k, i) == c # NoCursor /\ <<k, i>> \in OpsWith(W.idx, c)
\* referenced_dupe = 0: KeyNotFound, the cursor not coupled to the erase op
ErasedWhole(c, t, k) ==
  ErasedDupe(t, k) = 0 =>
    /\ FindTxnCall(c, t, k, {}).st = HAM_KEY_NOT_FOUND
    /\ ~OnOp(FindTxnCall(c, t, k, {}).W, c, k, NewestSeen(t, k))
\* referenced_dupe > 1: success, the cursor coupled to the op
ErasedLaterDupe(c, t, k) ==
  ErasedDupe(t, k) > 1 =>
    /\ FindTxnCall(c, t, k, {}).st = HAM_SUCCESS
    /\ c # NoCursor => OnOp(FindTxnCall(c, t, k, {}).W, c, k, NewestSeen(t, k))
\* referenced_dupe = 1: success if duplicates are left, else KeyNotFound
ErasedFirstDupe(c, t, k) ==
  ErasedDupe(t, k) = 1 =>
    /\ FindTxnCall(c, t, k, {}).st \in {HAM_SUCCESS, HAM_KEY_NOT_FOUND}
    /\ c # NoCursor =>
         (FindTxnCall(c, t, k, {}).st = HAM_SUCCESS
            <=> get_dupecache_count(FindTxnCall(c, t, k, {}).W, m_btree, c) # 0)

\* C21: exact find on an erased key.  An exact-match find_txn of a key whose
\* newest visible op is an Erase returns KeyNotFound with the cursor not
\* coupled to the erase op when referenced_dupe = 0, success with the cursor
\* coupled to the op when referenced_dupe > 1, and success exactly if
\* duplicates are left when referenced_dupe = 1; with and without a cursor.
C21_ExactFindErased ==
  \A x \in FindCallers, k \in Keys :
    StopsAtErase(x[2], k) =>
      /\ ErasedWhole(x[1], x[2], k)
      /\ ErasedLaterDupe(x[1], x[2], k)
      /\ ErasedFirstDupe(x[1], x[2], k)


\* the walk of find_txn(0, t, k, flags) over the op chains
WalkOf(t, k, flags) ==
  FindWalk(TheWorld, m_btree, NoCursor, t, FALSE, flags,
           txn_index_get(m_txn_index, k, flags),
           IF HasNode(m_txn_index, k) THEN Len(m_txn_index[k]) ELSE 0, TRUE, FALSE)
\* Lt or Gt combined with ExactMatch
ApproxOrExact == {f \in FindFlags : HAM_FIND_EXACT_MATCH \in f}
\* the walk found the requested key erased and find_txn goes on to the B-tree
ErasedThenBtree(t, k, flags) ==
  /\ is_active(t)
  /\ WalkOf(t, k, flags).exact_is_erased
  /\ WalkOf(t, k, flags).out # "return"

\* C22: no B-tree lookup of an erased exact key.  When the newest visible op
\* of the requested key is an Erase and Lt or Gt was asked together with
\* ExactMatch, the B-tree lookup find_txn issues has ExactMatch removed and
\* the requested key is not the key returned, also when the erased node has
\* no sibling or the sibling has no visible op.
C22_ErasedExactNotRefetched ==
  \A t \in Txns, k \in Keys, flags \in ApproxOrExact :
    ErasedThenBtree(t, k, flags) =>
      /\ HAM_FIND_EXACT_MATCH \notin BtreeLookupFlags(flags, WalkOf(t, k, flags))
      /\ FindKey(t, k, flags).st = HAM_SUCCESS => FindKey(t, k, flags).key # k


\* C23: recursion bound.  Whatever the overlay and the B-tree hold and
\* whatever the flags, one call of find_txn re-enters find_txn at most once.
C23_RecursionBound ==
  \A t \in Txns, k \in DOMAIN m_btree, flags \in FindFlags :
    is_active(t) => FindKey(t, k, flags).depth <= 1


\* the statuses find_txn returns
FindStatuses == {HAM_SUCCESS, HAM_KEY_NOT_FOUND, HAM_TXN_CONFLICT}
\* the keys of the B-tree beyond k in the direction of the flags: each
\* re-entry of find_txn is made with one of them, further from k than the
\* one before
BtreeBeyond(k, flags) ==
  {x \in DOMAIN m_btree :
     /\ m_btree[x] # <<>>
     /\ \/ HAM_FIND_LT_MATCH \in flags /\ x < k
        \/ HAM_FIND_GT_MATCH \in flags /\ x > k}
\* the sibling walk moves in the direction of the flags only
WalkProgress(t, k, flags) ==
  LET w == WalkOf(t, k, flags) IN
    /\ w.out \in {"return", "break", "end"}
    /\ w.node # NoKey =>
         /\ HAM_FIND_LT_MATCH \in flags => w.node <= k
         /\ HAM_FIND_GT_MATCH \in flags => w.node >= k
         /\ flags = {} => w.node = k
FindReturns(t, k, flags) ==
  /\ FindKey(t, k, flags).st \in FindStatuses
  /\ FindKey(t, k, flags).depth <= Cardinality(BtreeBeyond(k, flags))
  /\ WalkProgress(t, k, flags)

\* C24: find_txn terminates.  For every overlay and B-tree and every flag
\* combination find_txn returns a status: the sibling walk only moves away
\* from the requested key in the direction asked for, and every re-entry is
\* made for a further B-tree key in that direction, so their number is at
\* most the number of such keys.
C24_FindTerminates ==
  \A t \in Txns, k \in DOMAIN m_btree, flags \in FindFlags :
    is_active(t) => FindReturns(t, k, flags)
\* a call that walked over two erased nodes and re-entered twice returned
C24_Witness ==
  \E k \in DOMAIN m_btree, flags \in FindFlags :
    /\ is_active(1)
    /\ FindKey(1, k, flags).depth = 2
    /\ FindKey(1, k, flags).st = HAM_SUCCESS
    /\ WalkOf(1, k, flags).node \notin {k, NoKey}


\* the Approximate intflag of the key after find_txn(0, t, k, flags): on
\* success it tells whether the key returned is another key than k
ApproxOnSuccess(t, k, flags) ==
  FindKey(t, k, flags).st = HAM_SUCCESS =>
    (FindKey(t, k, flags).approx <=> FindKey(t, k, flags).key # k)
\* a lookup that failed leaves the requested key without the flag
ApproxOnFailure(t, k, flags) ==
  FindKey(t, k, flags).st # HAM_SUCCESS =>
    /\ FindKey(t, k, flags).key = k
    /\ ~FindKey(t, k, flags).approx

\* C25: approximate bit.  When find_txn returns success the Approximate flag
\* of the returned key is set exactly if that key differs from the requested
\* key; the flag is never left set on an exact hit nor on the requested key
\* of a lookup that failed.
C25_ApproximateBit ==
  \A t \in Txns, k \in DOMAIN m_btree, flags \in FindFlags :
    is_active(t) => ApproxOnSuccess(t, k, flags) /\ ApproxOnFailure(t, k, flags)


\* the active transactions with an op in the node of key k
ActiveWriters(k) ==
  {m_txn_index[k][i].txn : i \in {j \in 1..Len(m_txn_index[k]) : is_active(m_txn_index[k][j].txn)}}

\* C26: single writer per node.  In every reachable state the ops of one
\* TransactionNode whose transaction is still active all belong to the same
\* transaction, whatever inserts, erases and cursor erases were made.
C26_SingleWriter ==
  \A k \in DOMAIN m_txn_index : Cardinality(ActiveWriters(k)) <= 1


\* the op chains with every flushed op deleted
Unflushed ==
  [k \in DOMAIN m_txn_index |-> SelectSeq(m_txn_index[k], LAMBDA o : ~o.flushed)]
WorldUnflushed == World(Unflushed, m_cursor_list)
\* a flushed op belongs to a committed transaction
FlushedCommitted ==
  \A k \in DOMAIN m_txn_index : \A i \in 1..Len(m_txn_index[k]) :
    m_txn_index[k][i].flushed => is_committed(m_txn_index[k][i].txn)
SameInsertCheck(t, k) ==
  \A flags \in TxnInsertFlags :
    check_insert_conflicts(t, m_txn_index, m_btree, k, flags)
      = check_insert_conflicts(t, Unflushed, m_btree, k, flags)
SameEraseCheck(t, k) ==
  check_erase_conflicts(t, m_txn_index, m_btree, k)
    = check_erase_conflicts(t, Unflushed, m_btree, k)
SameFound(t, k) ==
  \A flags \in FindFlags :
    Found(find_txn(TheWorld, m_btree, NoCursor, t, k, flags, 0))
      = Found(find_txn(WorldUnflushed, m_btree, NoCursor, t, k, flags, 0))

\* C27: flushed ops are invisible.  check_insert_conflicts,
\* check_erase_conflicts and find_txn give the same result on the op chains
\* as on the chains with every flushed op (an op of a committed transaction)
\* deleted: a flushed op decides neither a status nor a record.
C27_FlushedInvisible ==
  /\ FlushedCommitted
  /\ \A t \in Txns, k \in DOMAIN m_txn_index :
       is_active(t) => SameInsertCheck(t, k) /\ SameEraseCheck(t, k)
  /\ \A t \in Txns, k \in Keys : is_active(t) => SameFound(t, k)
\* a flushed insert lies under a call of an active transaction: the B-tree
\* holds its key, with another record first, and the op is the only one of
\* its node
C27_Witness ==
  \E t \in Txns, k \in DOMAIN m_txn_index :
    /\ is_active(t)
    /\ Len(m_txn_index[k]) = 1
    /\ m_txn_index[k][1].flushed
    /\ m_txn_index[k][1].flags = kInsertDuplicate
    /\ m_btree[k][1] # m_txn_index[k][1].record
    /\ last = Called("find", HAM_SUCCESS)


\* flush_txn_operation applied to op x = <<key, position>> of the op chains
FlushResult(x) == flush_txn_operation(TheWorld, m_btree, x[1], x[2])

SeenBySome(k, i) == \E t \in Txns : i \in SeenOps(t, k)
FlushMarks(x) ==
  (FlushOp(x) /\ last'.st = HAM_SUCCESS) =>
    /\ ~FlushResult(x).W.idx[x[1]][x[2]].flushed
    /\ m_txn_index'[x[1]][x[2]].flushed
    /\ SeenBySome(x[1], x[2])
    /\ ~SeenBySome(x[1], x[2])'
FlushStep == \A x \in Flushable(m_txn_index) : FlushMarks(x)
FlushedOp(x) == m_txn_index[x[1]][x[2]]
BtreeAnswer(x) ==
  IF FlushedOp(x).flags = kErase
    THEN BtreeErase(m_btree, x[1], FlushedOp(x).referenced_dupe)
    ELSE BtreeInsert(m_btree, x[1], FlushedOp(x).record,
                     FlushedOp(x).orig_flags
                       \cup {IF FlushedOp(x).flags = kInsertDuplicate
                               THEN HAM_DUPLICATE ELSE HAM_OVERWRITE})
\* the statuses a B-tree operation can fail with
BtreeErrors == {HAM_KEY_NOT_FOUND, HAM_DUPLICATE_KEY}
ErasedStatus(e) == IF e = HAM_KEY_NOT_FOUND THEN HAM_SUCCESS ELSE e
FlushStatus(x) ==
  IF FlushedOp(x).flags = kErase
    THEN /\ FlushCall(x).st = ErasedStatus(BtreeAnswer(x).st)
         /\ \A e \in BtreeErrors :
              FlushErased(TheWorld, [st |-> e, bt |-> m_btree]).st = ErasedStatus(e)
    ELSE /\ FlushCall(x).st = BtreeAnswer(x).st
         /\ \A e \in BtreeErrors : FailedFlush(x, e).st = e

\* C29: flushing an Erase op whose key is absent from the B-tree succeeds.
\* flush_txn_operation turns the B-tree's KEY_NOT_FOUND into success for an
\* Erase op and for no other op; every other status of the B-tree's erase or
\* insert is returned as it is.
C29_FlushEraseAbsent == \A x \in Flushable(m_txn_index) : FlushStatus(x)
\* a committed Erase is about to be flushed, the B-tree does not hold what it
\* erases, and flush_txn_operation returns success
C29_Witness ==
  \E x \in Flushable(m_txn_index) :
    /\ FlushedOp(x).flags = kErase
    /\ BtreeAnswer(x).st = HAM_KEY_NOT_FOUND
    /\ FlushCall(x).st = HAM_SUCCESS


\* insert_txn called for transaction t, with and without a cursor of t
InsertTxnCall(t, k, rec, flags, c) ==
  insert_txn(TheWorld, m_btree, lsn, t, k, rec, flags, c)
InsertTxnCallers ==
  {x \in Txns \X ({NoCursor} \cup DOMAIN m_cursor_list) :
     /\ x[1] \in DOMAIN txns /\ is_active(x[1])
     /\ x[2] # NoCursor => m_cursor_list[x[2]].txn = x[1]}
AllInsertFlags == TxnInsertFlags \cup CursorInsertFlags
Journaling ==
  HAM_ENABLE_RECOVERY \in m_config.flags /\ HAM_ENABLE_TRANSACTIONS \in m_config.flags
\* the ops of key k that the call appended
AppendedOps(r, k) ==
  IF HasNode(r.W.idx, k)
    THEN {i \in 1..Len(r.W.idx[k]) :
            ~HasNode(m_txn_index, k) \/ i > Len(m_txn_index[k])}
    ELSE {}
InsertRecord(t, k, flags, op) ==
  [op |-> "insert", txn |-> t, key |-> k, lsn |-> op.lsn,
   flags |-> IF HAM_DUPLICATE \in flags THEN flags ELSE flags \cup {HAM_OVERWRITE}]
InsertJournaled(t, k, flags, r) ==
  /\ Cardinality(AppendedOps(r, k)) <= 1
  /\ r.journal = IF Journaling /\ AppendedOps(r, k) # {}
                   THEN <<InsertRecord(t, k, flags, r.W.idx[k][Len(r.W.idx[k])])>>
                   ELSE <<>>

\* C30: insert journaling.  insert_txn appends a journal Insert record if and
\* only if recovery and transactions are both enabled and the op was
\* appended; the record carries the LSN of the op and the flags of the caller,
\* as they are when Duplicate is set and with Overwrite added otherwise; one
\* record is appended for one appended op.
C30_InsertJournaled ==
  \A x \in InsertTxnCallers, k \in Keys, rec \in Recs, flags \in AllInsertFlags :
    InsertJournaled(x[1], k, flags, InsertTxnCall(x[1], k, rec, flags, x[2]))
\* a plain insert was appended and journaled with Overwrite added
C30_Witness ==
  \E x \in InsertTxnCallers, k \in Keys, rec \in Recs :
    /\ InsertTxnCall(x[1], k, rec, {}, x[2]).st = HAM_SUCCESS
    /\ Len(InsertTxnCall(x[1], k, rec, {}, x[2]).journal) = 1
    /\ InsertTxnCall(x[1], k, rec, {}, x[2]).journal[1].flags = {HAM_OVERWRITE}
    /\ last.op = "insert" /\ last.st = HAM_SUCCESS


\* erase_impl called through cursor c, which is not nil, in its transaction
CursorEraseCall(c) ==
  erase_impl(TheWorld, m_btree, lsn, c, m_cursor_list[c].txn, NoKey)
CursorErasers ==
  {c \in DOMAIN m_cursor_list :
     is_active(m_cursor_list[c].txn) /\ ~is_nil(TheWorld, c)}
\* the op a successful erase appended: the one with the new LSN
ErasedOps(r) ==
  {x \in AllOps(r.W.idx) : r.W.idx[x[1]][x[2]].lsn = r.lsn
                           /\ r.W.idx[x[1]][x[2]].flags = kErase}
\* the journal record erases what the op erases
SameErasure(rec, op) ==
  IF op.referenced_dupe = 0
    THEN rec.dupe = 0 /\ HAM_ERASE_ALL_DUPLICATES \in rec.flags
    ELSE rec.dupe = op.referenced_dupe /\ HAM_ERASE_ALL_DUPLICATES \notin rec.flags
EraseJournaledAs(r) ==
  r.st = HAM_SUCCESS =>
    /\ Len(r.journal) = 1
    /\ \A x \in ErasedOps(r) : SameErasure(r.journal[1], r.W.idx[x[1]][x[2]])

\* C31: erase journaling.  The journal Erase record of erase_txn carries
\* EraseAllDuplicates and duplicate index 0 only when the whole key is erased;
\* when the cursor is on duplicate d > 0 the record names that duplicate and
\* does not carry EraseAllDuplicates.
C31_EraseJournaled ==
  /\ \A c \in CursorErasers : EraseJournaledAs(CursorEraseCall(c))
  /\ \A t \in Txns, k \in Keys :
       is_active(t) =>
         EraseJournaledAs(erase_impl(TheWorld, m_btree, lsn, NoCursor, t, k))


\* the cursors attached to the op of the call in progress
StepAttached == StepOp.cursor_list
\* the journal holds the record of the op of the call in progress
StepJournaled == \E j \in 1..Len(last.journal) : last.journal[j].lsn = StepOp.lsn

\* C32: journal before coupling.  Within one insert through a cursor the
\* journal record of the new op is appended before the cursor is coupled to
\* the op: at no point of the call is a cursor attached to an op that has no
\* journal record.
C32_JournalBeforeCoupling == (InCall /\ StepAttached # <<>>) => StepJournaled


\* the pass of erase_txn over the cursors of the node when cursor c is on a
\* duplicate
DupeErasers ==
  {c \in CursorErasers : /\ m_cursor_list[c].dupecache_index > 0
                         /\ HasNode(m_txn_index, CursorKey(c))}
DupePass(c) == nil_all_cursors_in_node(TheWorld, c, CursorKey(c))
\* the cursors other than c attached to an op of the node
PeersOf(c) ==
  {p \in DOMAIN m_cursor_list \ {c} :
     \E x \in OpsWith(m_txn_index, p) : x[1] = CursorKey(c)}
PeerAdjusted(c, p, d, W) ==
  /\ m_cursor_list[p].dupecache_index > d =>
       /\ W.cur[p].dupecache_index = m_cursor_list[p].dupecache_index - 1
       /\ OpsWith(W.idx, p) = OpsWith(m_txn_index, p)
  /\ m_cursor_list[p].dupecache_index < d =>
       /\ W.cur[p] = m_cursor_list[p]
       /\ OpsWith(W.idx, p) = OpsWith(m_txn_index, p)
  /\ m_cursor_list[p].dupecache_index = d =>
       /\ txn_is_nil(W.idx, p)
       /\ W.cur[p].lastop = kLookupOrInsert
  /\ txn_is_nil(W.idx, p) => m_cursor_list[p].dupecache_index = d

FinalizedOnce(E, st, local_txn) == Finalized(E, st, local_txn) = finalize(E, st, local_txn)
InsertFinalizedOnce(htxn, k, rec, flags) ==
  FinalizedOnce(Env(Begun(htxn), InsertPages(CallTxn(htxn), k, flags),
                    InsertCalled(CallTxn(htxn), k, rec, flags).lsn),
                InsertCalled(CallTxn(htxn), k, rec, flags).st, LocalTxn(htxn))
EraseFinalizedOnce(htxn, k) ==
  FinalizedOnce(Env(Begun(htxn), ErasePages(CallTxn(htxn), k),
                    EraseCalled(CallTxn(htxn), k).lsn),
                EraseCalled(CallTxn(htxn), k).st, LocalTxn(htxn))
FindFinalizedOnce(htxn, k, flags) ==
  FinalizedOnce(Env(Begun(htxn), FindPages(CallTxn(htxn), k, flags), lsn),
                FindCalled(CallTxn(htxn), k, flags), LocalTxn(htxn))

\* C34: finalize runs exactly once per public operation, with the status the
\* operation returns: the temporary transaction is committed or aborted once
\* and a changeset flush takes one LSN per operation.
C34_FinalizeOnce ==
  \A htxn \in {NoTxn} \cup Txns, k \in Keys :
    CanCall(htxn) =>
      /\ \A flags \in EnvInsertFlags :
           RecnoKey(k, flags) \in Keys =>
             InsertFinalizedOnce(htxn, RecnoKey(k, flags), lsn + 1, flags)
      /\ EraseFinalizedOnce(htxn, k)
      /\ \A flags \in CursorFindFlags :
           (htxn = NoTxn \/ ~EnableDuplicateKeys) => FindFinalizedOnce(htxn, k, flags)


\* the changeset flush of the return path: Changeset::flush takes the next LSN
\* and leaves the changeset empty
RecoveryOnly == HAM_ENABLE_RECOVERY \in m_config.flags /\ ~Transactional
FlushedFresh(E, st, local_txn) ==
  /\ Finalized(E, st, local_txn).lsn > E.lsn
  /\ E.lsn >= lsn
  /\ \A x \in AllOps(m_txn_index) : m_txn_index[x[1]][x[2]].lsn < Finalized(E, st, local_txn).lsn
  /\ Finalized(E, st, local_txn).changeset = {}
NotFlushed(E, st, local_txn) == Finalized(E, st, local_txn).lsn = E.lsn
RecoveryFlush(htxn, E, st, local_txn) ==
  /\ (RecoveryOnly /\ st = HAM_SUCCESS) => FlushedFresh(E, st, local_txn)
  /\ (htxn # NoTxn \/ HAM_ENABLE_RECOVERY \notin m_config.flags) =>
       NotFlushed(E, st, local_txn)
InsertRecoveryFlush(htxn, k, rec, flags) ==
  RecoveryFlush(htxn,
                Env(Begun(htxn), InsertPages(CallTxn(htxn), k, flags),
                    InsertCalled(CallTxn(htxn), k, rec, flags).lsn),
                InsertCalled(CallTxn(htxn), k, rec, flags).st, LocalTxn(htxn))
EraseRecoveryFlush(htxn, k) ==
  RecoveryFlush(htxn,
                Env(Begun(htxn), ErasePages(CallTxn(htxn), k),
                    EraseCalled(CallTxn(htxn), k).lsn),
                EraseCalled(CallTxn(htxn), k).st, LocalTxn(htxn))
FindRecoveryFlush(htxn, k, flags) ==
  RecoveryFlush(htxn, Env(Begun(htxn), FindPages(CallTxn(htxn), k, flags), lsn),
                FindCalled(CallTxn(htxn), k, flags), LocalTxn(htxn))

TxnRestored ==
  \A c \in DOMAIN m_cursor_list :
    /\ m_cursor_list'[c].txn = m_cursor_list[c].txn
    /\ m_cursor_list'[c].txn # NoTxn => txns[m_cursor_list'[c].txn] # "unused"

\* C36: the cursor's transaction reference is restored.  After an insert,
\* find, erase or overwrite through a cursor, whether it succeeded or failed,
\* the cursor's transaction reference is the one it had before the call; a
\* cursor never keeps a reference to a temporary transaction.
C36_CursorTxnRestored == [][TxnRestored]_vars
\* a cursor without a transaction is coupled to an op of a temporary
\* transaction that was committed when the call returned
C36_Witness ==
  \E c \in DOMAIN m_cursor_list :
    /\ m_cursor_list[c].txn = NoTxn
    /\ last = Called("cursor_insert", HAM_SUCCESS)
    /\ \E x \in OpsWith(m_txn_index, c) : is_committed(m_txn_index[x[1]][x[2]].txn)


\* the chain of key k in the world W
ChainIn(W, k) == IF HasNode(W.idx, k) THEN W.idx[k] ELSE <<>>
\* the call appended one op, an Erase, to the chain of key k and nothing to
\* another chain
ErasedAt(r, k) ==
  /\ Len(ChainIn(r.W, k)) = Len(ChainOf(k)) + 1
  /\ ChainIn(r.W, k)[Len(ChainIn(r.W, k))].flags = kErase
  /\ ChainIn(r.W, k)[Len(ChainIn(r.W, k))].key = k
  /\ \A n \in DOMAIN r.W.idx \ {k} : Len(r.W.idx[n]) = Len(ChainOf(n))
CursorErased(c, r) ==
  r.st = HAM_SUCCESS =>
    /\ txn_is_nil(r.W.idx, c)
    /\ r.W.cur[c].btree = NoKey
    /\ r.W.cur[c].dupecache_index = 0
    /\ ErasedAt(r, CursorKey(c))

\* C37: cursor erase post-state.  After a successful erase through a cursor,
\* with transactions enabled, the cursor is nil on its txn side and on its
\* B-tree side and its dupecache is empty, and the Erase op was appended for
\* the key the cursor was on: the key of the coupled op, or the key of the
\* B-tree cursor when the cursor was coupled to the B-tree.
C37_CursorErasePostState == \A c \in CursorErasers : CursorErased(c, CursorEraseCall(c))
\* a cursor coupled to the B-tree and a cursor coupled to an op can both erase
C37_Witness ==
  /\ \E c \in CursorErasers :
       /\ m_cursor_list[c].coupled_to_txnop
       /\ CursorEraseCall(c).st = HAM_SUCCESS
  /\ \E c \in CursorErasers :
       /\ ~m_cursor_list[c].coupled_to_txnop
       /\ CursorEraseCall(c).st = HAM_SUCCESS


\* C38: scan completeness.  scan(txn, visitor) hands the visitor every key
\* that txn sees (the keys of the B-tree that the overlay does not erase and
\* the keys the overlay inserts) once each, in ascending order, and no other
\* key.
C38_ScanComplete ==
  \A t \in Txns : is_active(t) => scan(t).visited = Ascending(ScanVisible(t))


\* C39: create-time sizing.  create fails with HAM_INV_KEY_SIZE exactly when
\* the key size is fixed and fewer than 10 keys of key_size + 8 bytes fit in
\* a page; a successful create sets HAM_FORCE_RECORDS_INLINE exactly when the
\* record size is fixed and either record_size <= 8, or record_size <=
\* kInlineRecordThreshold and page_size / (key_size + record_size) >= 500.
Created == last.op = "create"
FewerThanTenKeys ==
  /\ m_config.key_size # HAM_KEY_SIZE_UNLIMITED
  /\ m_config.page_size \div (m_config.key_size + 8) < 10
AtLeast500Pairs ==
  m_config.page_size \div (m_config.key_size + m_config.record_size) >= 500
InlineExpected ==
  /\ m_config.record_size # HAM_RECORD_SIZE_UNLIMITED
  /\ \/ m_config.record_size <= 8
     \/ m_config.record_size <= kInlineRecordThreshold /\ AtLeast500Pairs
C39_CreateSizing ==
  Created =>
    /\ (last.st = HAM_INV_KEY_SIZE) = FewerThanTenKeys
    /\ last.st = HAM_SUCCESS =>
         ((HAM_FORCE_RECORDS_INLINE \in m_config.flags) = InlineExpected)
\* the refusal alone: it is decided as the claim says
C39_KeySizeRefusal == Created => ((last.st = HAM_INV_KEY_SIZE) = FewerThanTenKeys)


\* C40: cursor_move on a nil cursor.  NEXT on a nil cursor is performed as
\* FIRST when the cursor was never used and as LAST otherwise, PREVIOUS as
\* LAST when never used and as FIRST otherwise; after a failed move the lastop
\* memo is 0 and KeyErasedInTxn is reported as KeyNotFound; after a successful
\* NEXT or PREVIOUS the memo equals that direction.
Moved == last.op = "cursor_move"
NilMovePerformedAs ==
  (Moved /\ last.was_nil) =>
    /\ last.flags = {HAM_CURSOR_NEXT} =>
         last.moved = {IF last.first_use THEN HAM_CURSOR_FIRST ELSE HAM_CURSOR_LAST}
    /\ last.flags = {HAM_CURSOR_PREVIOUS} =>
         last.moved = {IF last.first_use THEN HAM_CURSOR_LAST ELSE HAM_CURSOR_FIRST}
FailedMoveCleared ==
  (Moved /\ last.st # HAM_SUCCESS) =>
    /\ m_cursor_list[last.cursor].lastop = kNoLastOp
    /\ last.st = HAM_KEY_NOT_FOUND
C40_NilCursorMove ==
  /\ NilMovePerformedAs
  /\ FailedMoveCleared
  /\ (Moved /\ last.st = HAM_SUCCESS /\ last.flags = {HAM_CURSOR_NEXT}) =>
       m_cursor_list[last.cursor].lastop = HAM_CURSOR_NEXT
  /\ (Moved /\ last.st = HAM_SUCCESS /\ last.flags = {HAM_CURSOR_PREVIOUS}) =>
       m_cursor_list[last.cursor].lastop = HAM_CURSOR_PREVIOUS
\* C40, as the code has it: the flags of a nil cursor are rewritten as the
\* claim says; with transactions the memo after a failed move is 0 and the
\* status KeyNotFound, and after a successful move it is the direction that
\* was performed (NEXT or PREVIOUS for a cursor that was not nil, 0 for FIRST
\* and LAST, to which the NEXT and PREVIOUS of a nil cursor belong); without
\* transactions the memo is left as it was.
C40_MoveMemo ==
  /\ NilMovePerformedAs
  /\ (Moved /\ Transactional) =>
       /\ FailedMoveCleared
       /\ last.st = HAM_SUCCESS =>
            m_cursor_list[last.cursor].lastop = StoredDirection(last.moved)
       /\ (last.st = HAM_SUCCESS /\ last.was_nil) =>
            m_cursor_list[last.cursor].lastop = kNoLastOp
       /\ (last.st = HAM_SUCCESS /\ ~last.was_nil /\ last.flags = {HAM_CURSOR_NEXT}) =>
            m_cursor_list[last.cursor].lastop = HAM_CURSOR_NEXT
  /\ (Moved /\ ~Transactional) => m_cursor_list[last.cursor].lastop = last.lastop
\* a cursor that was used and is nil again moved with NEXT, to the last key
C40_Witness ==
  /\ Moved /\ Transactional /\ last.was_nil /\ ~last.first_use
  /\ last.flags = {HAM_CURSOR_NEXT} /\ last.st = HAM_SUCCESS
  /\ CursorKey(last.cursor) = MaxKey

====
